---- MODULE Spec2Model ----
(***************************************************************************)
(* A model of the stacks-go codec library: the Base58 and C32 address      *)
(* codecs (lib/address) and the Clarity value decoder (lib/clarity_value). *)
(*                                                                         *)
(* Go strings and byte slices are sequences of numbers 0..255; a string's  *)
(* characters are their ASCII codes.  Every codec function is an operator  *)
(* that follows the loops of its source; each specification drives one     *)
(* family of functions: SpecB58, SpecC32 and SpecCV.                       *)
(***************************************************************************)
EXTENDS Integers, Sequences, FiniteSets, TLC

VARIABLES
    b58pc,      \* Base58 driver: "idle" | "ready" | "encoded" | "decoded", and for the
                \* checked forms "cready" | "cenc" | "text" | "cdec" | "tdec" | "creenc" |
                \* "bdec" | "benc"
    b58data,    \* the byte slice handed to the encoder
    b58text,    \* the string the encoder returned, or the one a caller hands a decoder
    b58out,     \* what DecodeBase58 or DecodeBase58Check returned for b58text
    b58re,      \* the string the encoder returned for what the decoder returned
    btc,        \* what DecodeBitcoinAddress returned for b58text
    c32pc,      \* C32 driver: "idle" | "ready" | "enc" | "dec" | "cenc" | "cdec" | "aenc" | "adec",
                \* and for a string handed to a decoder "text" | "tdec" | "tcdec" | "tadec"
    c32ver,     \* the version byte
    c32data,    \* the payload bytes
    c32text,    \* the encoder's result
    c32out,     \* the decoder's result
    cvpc,       \* value decoder driver: "idle" | "ready" | "done" | "shown" | "pshown"
    cvinput,    \* the whole buffer behind the bytes.Reader
    cvstart,    \* the reader's offset when DecodeClarityValue is called
    cvend,      \* the offset just after the encoding the caller put at cvstart
    cvwf,       \* whether that encoding is complete under the layout of the format
    cvstop,     \* bytes of a damaged encoding up to the end of the field that breaks a rule, or -1
    cvwith,     \* the withBytes argument of the call
    cvres,      \* what the call returned, with the reader's final offset
    cvrepr,     \* what ReprString and TypeSignature returned for the decoded value
    nmpc,       \* name driver: "idle" | "ready" | the function that was called
    nminput,    \* the string handed to a Validate function, or put behind a length byte
    nmlen,      \* the length byte in front of nminput in the reader of a Decode function
    nmres,      \* what the call returned, with the reader's final offset
    tbtodo,     \* the init() functions of package address still to run, in order
    tbpc,       \* the loop the running init() is in: "fill" | "set" | "special", or "done"
    tbi,        \* that loop's index
    digitsB58,  \* the package variable base58Digits
    charMapC32, \* the package variable c32CharMap
    gor,        \* per goroutine: the call it is in and what it read
    tbracy,     \* whether a table was written during a call or read before it was complete
    txpc,       \* DecodeTxPostConditions: "idle" | "ready" | "loop" | "returned"
    txdata,     \* its argument data
    txpos,      \* the offset of the reader over data[5:]
    txconds,    \* resp.PostConditions
    txends,     \* the reader's offset after each post condition that was appended
    txret,      \* what the call returned
    txdec       \* what DecodePostCondition returns for the reader at each offset

b58vars == <<b58pc, b58data, b58text, b58out, b58re, btc>>
c32vars == <<c32pc, c32ver, c32data, c32text, c32out>>
cvvars == <<cvpc, cvinput, cvstart, cvend, cvwf, cvstop, cvwith, cvres, cvrepr>>
nmvars == <<nmpc, nminput, nmlen, nmres>>
tbvars == <<tbtodo, tbpc, tbi, digitsB58, charMapC32, gor, tbracy>>
txvars == <<txpc, txdata, txpos, txconds, txends, txret, txdec>>
vars == <<b58vars, c32vars, cvvars, nmvars, tbvars, txvars>>

\* what the functions of one family leave alone
notB58vars == <<c32vars, cvvars, nmvars, tbvars, txvars>>
notC32vars == <<b58vars, cvvars, nmvars, tbvars, txvars>>
notCVvars == <<b58vars, c32vars, nmvars, tbvars, txvars>>
notNMvars == <<b58vars, c32vars, cvvars, tbvars, txvars>>
notTBvars == <<b58vars, c32vars, cvvars, nmvars, txvars>>
notTXvars == <<b58vars, c32vars, cvvars, nmvars, tbvars>>

----------------------------------------------------------------------------
(* Bounds of the model. *)

\* longest byte slice handed to the Base58 encoder
MaxB58Len == 4
\* longest string handed to a Base58 decoder character by character
MaxB58Text == 2
\* longest string of one repeated character handed to a Base58 decoder
MaxB58Run == 12
\* longest byte slice handed to the C32 encoder
MaxC32Len == 4
\* longest string handed to a C32 decoder character by character
MaxC32Text == 2
\* the longest payload, hashes apart, whose encoding is altered before it is decoded
MaxC32Altered == 2
\* goroutines calling the codecs at the same time
Goroutines == 2
\* most post conditions in the data handed to DecodeTxPostConditions
MaxPostConditions == 2
\* most elements of a generated list, most pairs of a generated tuple
MaxListLen == 2
\* most wrappers of a generated chain of nested values
MaxNest == 17
\* most bytes in the buffer before the value the decoder is started at
MaxStart == 1
\* the orders in which a range over a Go map is taken to yield its keys
RangeOrders == 2
\* longest name drawn character by character
MaxNameLen == 2

----------------------------------------------------------------------------
(* Helpers for Go's fixed-width arithmetic and slices. *)

Pow2(n) == 2 ^ n

\* a value stored in a Go byte (uint8)
Byte(x) == x % 256

\* x >> n on an unsigned value
Shr(x, n) == x \div Pow2(n)

\* x & ((1 << n) - 1) evaluated in uint8: 1 << n is 0 once n >= 8
LowBits(x, n) == IF n >= 8 THEN x % 256 ELSE x % Pow2(n)

\* make([]T, n): n zero values
Zeros(n) == [i \in 1..n |-> 0]

\* s[from:] with 0-based from
SliceFrom(s, from) == SubSeq(s, from + 1, Len(s))

\* s[from:to] with 0-based bounds
Slice(s, from, to) == SubSeq(s, from + 1, to)

Reverse(s) == [i \in 1..Len(s) |-> s[Len(s) + 1 - i]]

\* all sequences over S of length 0..n
SeqsUpTo(S, n) == UNION {[1..k -> S] : k \in 0..n}

\* the value a function returns when it panics (index out of range)
Panic == <<-1>>

\* a result of the form (data []byte, err error); err = "" is the nil error
Ok(d) == [data |-> d, isNil |-> FALSE, err |-> ""]
Fail(e) == [data |-> <<>>, isNil |-> TRUE, err |-> e]

----------------------------------------------------------------------------
(* lib/address/base58.go *)

base58Chars ==
    <<49, 50, 51, 52, 53, 54, 55, 56, 57,
      65, 66, 67, 68, 69, 70, 71, 72,
      74, 75, 76, 77, 78,
      80, 81, 82, 83, 84, 85, 86, 87, 88, 89, 90,
      97, 98, 99, 100, 101, 102, 103, 104, 105, 106, 107,
      109, 110, 111, 112, 113, 114, 115, 116, 117, 118, 119, 120, 121, 122>>

\* the table init() builds: -1 everywhere, then the index of each character
base58Digits ==
    [c \in 0..127 |->
        IF \E i \in 1..Len(base58Chars) : base58Chars[i] = c
        THEN (CHOOSE i \in 1..Len(base58Chars) : base58Chars[i] = c) - 1
        ELSE -1]

\* the number of leading elements of s equal to x
RECURSIVE CountLeading(_, _)
CountLeading(s, x) ==
    IF s # <<>> /\ Head(s) = x THEN 1 + CountLeading(Tail(s), x) ELSE 0

\* the inner loop of DecodeBase58: result = result * 58 + carry, from the
\* last byte (0-based j) to the first; the carry left at the end is dropped
RECURSIVE B58MulAdd(_, _, _)
B58MulAdd(result, j, carry) ==
    IF j < 0 THEN result
    ELSE LET c == carry + result[j + 1] * 58
         IN B58MulAdd([result EXCEPT ![j + 1] = c % 256], j - 1, Shr(c, 8))

\* the carry the inner loop of DecodeBase58 is left with when j gets below 0
RECURSIVE B58MulAddCarry(_, _, _)
B58MulAddCarry(result, j, carry) ==
    IF j < 0 THEN carry
    ELSE B58MulAddCarry(result, j - 1, Shr(carry + result[j + 1] * 58, 8))

\* one iteration of the outer loop of DecodeBase58 for character c: the
\* error of an invalid character, or the working buffer times 58 plus c's
\* digit; lost tells whether a pass so far was left with a carry
B58DecodeChar(st, c) ==
    IF c >= 128 THEN [err |-> "invalid base58 character", result |-> <<>>, lost |-> st.lost]
    ELSE IF base58Digits[c] = -1
         THEN [err |-> "invalid base58 character", result |-> <<>>, lost |-> st.lost]
         ELSE [err |-> "",
               result |-> B58MulAdd(st.result, Len(st.result) - 1, base58Digits[c]),
               lost |-> st.lost
                        \/ B58MulAddCarry(st.result, Len(st.result) - 1,
                                          base58Digits[c]) # 0]

\* the outer loop of DecodeBase58 over input[i..], left at the first error
RECURSIVE B58DecodeLoop(_, _, _)
B58DecodeLoop(input, i, st) ==
    IF i >= Len(input) \/ st.err # "" THEN st
    ELSE B58DecodeLoop(input, i + 1, B58DecodeChar(st, input[i + 1]))

\* a working buffer of len(input)*11/15 bytes
B58DecodeBufferShort(input) ==
    [err |-> "", result |-> Zeros((Len(input) * 11) \div 15), lost |-> FALSE]

\* result := make([]byte, 1+len(input)*11/15), before the first character
B58DecodeBuffer(input) ==
    [err |-> "", result |-> Zeros(1 + (Len(input) * 11) \div 15), lost |-> FALSE]

\* a faulty DecodeBase58: the leading '1' characters are not turned back into
\* zero bytes
DecodeBase58NoLeadingZeros(input) ==
    IF Len(input) = 0 THEN Ok(<<>>)
    ELSE LET r == B58DecodeLoop(input, 0, B58DecodeBuffer(input))
         IN IF r.err # "" THEN Fail(r.err)
            ELSE Ok(SliceFrom(r.result, CountLeading(r.result, 0)))

DecodeBase58(input) ==
    IF Len(input) = 0 THEN Ok(<<>>)
    ELSE LET leadingZeros == CountLeading(input, 49)
             r == B58DecodeLoop(input, 0, B58DecodeBuffer(input))
         IN IF r.err # "" THEN Fail(r.err)
            ELSE LET i == CountLeading(r.result, 0)
                 IN Ok(Zeros(leadingZeros) \o SliceFrom(r.result, i))

\* the inner loop of EncodeBase58 for one input byte: st is the working
\* buffer, its used length, and whether a write fell outside the buffer
RECURSIVE B58DivLoop(_, _, _)
B58DivLoop(st, j, carry) ==
    IF st.panic \/ ~(j < st.resultLen \/ carry # 0)
    THEN [st EXCEPT !.resultLen = IF st.panic THEN st.resultLen ELSE j]
    ELSE LET c == IF j < st.resultLen THEN carry + 256 * st.result[j + 1] ELSE carry
         IN IF j >= Len(st.result)
            THEN [st EXCEPT !.panic = TRUE]
            ELSE B58DivLoop([st EXCEPT !.result[j + 1] = c % 58], j + 1, c \div 58)

RECURSIVE B58EncodeLoop(_, _, _)
B58EncodeLoop(data, i, st) ==
    IF i >= Len(data) \/ st.panic THEN st
    ELSE B58EncodeLoop(data, i + 1, B58DivLoop(st, 0, data[i + 1]))

\* EncodeBase58 without the '1' characters for the leading zero bytes
EncodeBase58NoLeadingOnes(data) ==
    IF Len(data) = 0 THEN <<>>
    ELSE LET st0 == [result |-> Zeros(1 + (Len(data) * 7) \div 5),
                     resultLen |-> 0, panic |-> FALSE]
             st == B58EncodeLoop(data, 0, st0)
         IN IF st.panic THEN Panic
            ELSE [k \in 1..st.resultLen |->
                     base58Chars[st.result[st.resultLen + 1 - k] + 1]]

EncodeBase58(data) ==
    IF Len(data) = 0 THEN <<>>
    ELSE LET leadingZeros == CountLeading(data, 0)
             st0 == [result |-> Zeros(1 + (Len(data) * 7) \div 5),
                     resultLen |-> 0, panic |-> FALSE]
             st == B58EncodeLoop(data, 0, st0)
         IN IF st.panic THEN Panic
            ELSE [k \in 1..leadingZeros |-> 49]
                 \o [k \in 1..st.resultLen |->
                        base58Chars[st.result[st.resultLen + 1 - k] + 1]]

----------------------------------------------------------------------------
(* The Base58 driver: a caller encodes a byte slice and decodes the text. *)

\* byte values the driver draws its slices from
B58Bytes == {0, 1, 57, 58, 128, 255}

\* a result of the form (*BitcoinAddress, error)
BtcOk(a) == [addr |-> a, isNil |-> FALSE, err |-> ""]
BtcFail(e) ==
    [addr |-> [AddrType |-> "", NetworkID |-> "", Hash160Bytes |-> <<>>],
     isNil |-> TRUE, err |-> e]

\* 20-byte hashes: 1..20, and zero bytes before a one
B58Hashes == { [i \in 1..20 |-> i], [i \in 1..20 |-> IF i = 20 THEN 1 ELSE 0] }

\* the payloads handed to the checked encoder: short ones, and around the
\* 21 bytes of an address a version byte (the four known ones, 1, 255) with
\* a hash, a hash alone, and a version byte with a hash and one more byte
B58Payloads ==
    SeqsUpTo({0, 1, 255}, MaxB58Len)
    \cup { <<v>> \o h : v \in {0, 5, 111, 196, 1, 255}, h \in B58Hashes }
    \cup B58Hashes
    \cup { <<0>> \o h \o <<7>> : h \in B58Hashes }

\* the characters short strings are drawn from: 1 2 z, and outside the
\* alphabet 0 O I l and the byte 200
B58TextChars == {49, 50, 122, 48, 79, 73, 108, 200}

\* the largest number of each length: z repeated
B58Runs == { [i \in 1..n |-> 122] : n \in 1..MaxB58Run }

\* the strings a caller hands a decoder directly
B58Strings == SeqsUpTo(B58TextChars, MaxB58Text) \cup B58Runs

B58Idle ==
    /\ b58pc = "idle" /\ b58data = <<>> /\ b58text = <<>> /\ b58out = Fail("")
    /\ b58re = <<>> /\ btc = BtcFail("")

B58Init ==
    /\ \/ /\ b58pc = "ready"
          /\ b58data \in SeqsUpTo(B58Bytes, MaxB58Len)
          /\ b58text = <<>>
       \/ /\ b58pc = "cready"
          /\ b58data \in B58Payloads
          /\ b58text = <<>>
       \/ /\ b58pc = "text"
          /\ b58data = <<>>
          /\ b58text \in B58Strings
    /\ b58out = Fail("")
    /\ b58re = <<>>
    /\ btc = BtcFail("")

B58Encode ==
    /\ b58pc = "ready"
    /\ b58text' = EncodeBase58(b58data)
    /\ b58pc' = "encoded"
    /\ UNCHANGED <<b58data, b58out, b58re, btc>>
    /\ UNCHANGED notB58vars

B58Decode ==
    /\ b58pc = "encoded"
    /\ b58out' = DecodeBase58(b58text)
    /\ b58pc' = "decoded"
    /\ UNCHANGED <<b58data, b58text, b58re, btc>>
    /\ UNCHANGED notB58vars

----------------------------------------------------------------------------
(* lib/address/c32.go *)

c32Chars ==
    <<48, 49, 50, 51, 52, 53, 54, 55, 56, 57,
      65, 66, 67, 68, 69, 70, 71, 72,
      74, 75, 77, 78,
      80, 81, 82, 83, 84,
      86, 87, 88, 89, 90>>

\* the index of c in c32Chars (0-based)
C32Index(c) == (CHOOSE i \in 1..Len(c32Chars) : c32Chars[i] = c) - 1

\* the first loop of init(): each alphabet character and, for a letter, its
\* lowercase form
c32CharMapBase ==
    [c \in 0..127 |->
        IF \E i \in 1..Len(c32Chars) : c32Chars[i] = c THEN C32Index(c)
        ELSE IF c - 32 >= 65 /\ c - 32 <= 90
                /\ \E i \in 1..Len(c32Chars) : c32Chars[i] = c - 32
             THEN C32Index(c - 32)
             ELSE -1]

\* a table without the special characters: O, L and I stay invalid
c32CharMapNoSpecial == [c \in 0..127 |-> c32CharMapBase[c]]

\* the second loop of init(): O -> 0, L -> 1, I -> 1, in both cases
c32CharMap ==
    [c \in 0..127 |->
        IF c \in {79, 79 + 32} THEN c32CharMapBase[48]
        ELSE IF c \in {76, 76 + 32, 73, 73 + 32} THEN c32CharMapBase[49]
        ELSE c32CharMapBase[c]]

\* a capacity without the inputLen%5 term: the whole characters of the bits
GetMaxC32EncodeOutputLenFloor(inputLen) == (inputLen * 8) \div 5

\* int(float64(inputLen + inputLen%5) / 5.0 * 8.0): the product is exact when
\* it is an integer and otherwise at least 0.2 away from one
GetMaxC32EncodeOutputLen(inputLen) == ((inputLen + (inputLen % 5)) * 8) \div 5

\* output[position] = c32Chars[value]; position++ (a panic when the value is
\* no index of the alphabet or the position no index of the buffer)
C32Put(st, value) ==
    IF st.panic \/ value >= Len(c32Chars) \/ st.position >= Len(st.output)
    THEN [st EXCEPT !.panic = TRUE]
    ELSE [st EXCEPT !.output[st.position + 1] = c32Chars[value + 1],
                    !.position = st.position + 1]

\* one iteration of the main loop of EncodeC32ToBuffer
C32EncodeByte(st, currentValue) ==
    LET lowBitsToTake == Byte(5 - st.carryBits)
        lowBits == LowBits(currentValue, lowBitsToTake)
        c32Value == Byte(Byte(lowBits * Pow2(st.carryBits)) + st.carry)
        st1 == C32Put(st, c32Value)
        carryBits1 == Byte((8 + st.carryBits) - 5)
        carry1 == Shr(currentValue, Byte(8 - carryBits1))
    IN IF carryBits1 >= 5
       THEN LET st2 == C32Put(st1, LowBits(carry1, 5))
            IN [st2 EXCEPT !.carryBits = Byte(carryBits1 - 5), !.carry = Shr(carry1, 5)]
       ELSE [st1 EXCEPT !.carryBits = carryBits1, !.carry = carry1]

\* the main loop, from the last input byte (0-based i) to the first
RECURSIVE C32EncodeLoop(_, _, _)
C32EncodeLoop(input, i, st) ==
    IF i < 0 \/ st.panic THEN st
    ELSE C32EncodeLoop(input, i - 1, C32EncodeByte(st, input[i + 1]))

\* a faulty trim: the encoding's own zero digits are kept
C32TrimLoopKeepsZeros(st) == st

\* "remove leading zeros from c32 encoding"
RECURSIVE C32TrimLoop(_)
C32TrimLoop(st) ==
    IF st.position > 0 /\ st.output[st.position] = c32Chars[1]
    THEN C32TrimLoop([st EXCEPT !.position = st.position - 1])
    ELSE st

\* "add leading zeros from input"
RECURSIVE C32PadLoop(_, _, _)
C32PadLoop(input, k, st) ==
    IF k >= Len(input) \/ st.panic \/ input[k + 1] # 0 THEN st
    ELSE C32PadLoop(input, k + 1, C32Put(st, 0))

\* EncodeC32ToBuffer(input, output): [n, err, output, panic]
EncodeC32ToBuffer(input, output) ==
    IF Len(output) < GetMaxC32EncodeOutputLen(Len(input))
    THEN [n |-> 0, err |-> "C32 encode output buffer is too small",
          output |-> output, panic |-> FALSE]
    ELSE LET st0 == [output |-> output, position |-> 0, carry |-> 0,
                     carryBits |-> 0, panic |-> FALSE]
             st1 == C32EncodeLoop(input, Len(input) - 1, st0)
             st2 == IF st1.panic \/ st1.carryBits = 0 THEN st1
                    ELSE C32Put(st1, st1.carry)
             st3 == IF st2.panic THEN st2 ELSE C32TrimLoop(st2)
             st4 == C32PadLoop(input, 0, st3)
         IN IF st4.panic
            THEN [n |-> 0, err |-> "", output |-> output, panic |-> TRUE]
            ELSE [n |-> st4.position, err |-> "",
                  output |-> Reverse(Slice(st4.output, 0, st4.position))
                             \o SliceFrom(st4.output, st4.position),
                  panic |-> FALSE]

EncodeC32(input) ==
    IF Len(input) = 0 THEN <<>>
    ELSE LET buffer == Zeros(GetMaxC32EncodeOutputLen(Len(input)))
             r == EncodeC32ToBuffer(input, buffer)
         IN IF r.panic THEN Panic ELSE Slice(r.output, 0, r.n)

\* the first loop of DecodeC32Bytes: the digits of the input, last first
RECURSIVE C32DigitsLoop(_, _, _)
C32DigitsLoop(input, i, digits) ==
    IF i < 0 THEN [err |-> "", digits |-> digits]
    ELSE IF input[i + 1] >= 128 \/ c32CharMap[input[i + 1]] = -1
         THEN [err |-> "invalid c32 character", digits |-> <<>>]
         ELSE C32DigitsLoop(input, i - 1, Append(digits, c32CharMap[input[i + 1]]))

\* the second loop: 5-bit digits packed into bytes through a uint16 carry
RECURSIVE C32PackLoop(_, _, _, _, _)
C32PackLoop(digits, k, carry, carryBits, result) ==
    IF k > Len(digits)
    THEN IF carryBits > 0 THEN Append(result, carry % 256) ELSE result
    ELSE LET c == (carry + digits[k] * Pow2(carryBits)) % 65536
             cb == carryBits + 5
         IN IF cb >= 8
            THEN C32PackLoop(digits, k + 1, Shr(c, 8), cb - 8, Append(result, c % 256))
            ELSE C32PackLoop(digits, k + 1, c, cb, result)

\* "remove trailing zeros"
RECURSIVE TrimTrailingZeros(_)
TrimTrailingZeros(s) ==
    IF s # <<>> /\ s[Len(s)] = 0 THEN TrimTrailingZeros(SubSeq(s, 1, Len(s) - 1)) ELSE s

DecodeC32Bytes(input) ==
    IF Len(input) = 0 THEN Ok(<<>>)
    ELSE LET d == C32DigitsLoop(input, Len(input) - 1, <<>>)
         IN IF d.err # "" THEN Fail(d.err)
            ELSE LET packed == C32PackLoop(d.digits, 1, 0, 0, <<>>)
                     trimmed == TrimTrailingZeros(packed)
                     \* the digits are reversed: the input's leading digits are last
                     lead == CountLeading(Reverse(d.digits), 0)
                 IN Ok(Reverse(trimmed \o Zeros(lead)))

DecodeC32(input) ==
    IF \E i \in 1..Len(input) : input[i] >= 128
    THEN Fail("invalid c32 string: must be ASCII")
    ELSE DecodeC32Bytes(input)

\* hash2[:4] of hash2 = sha256(sha256(msg)).  crypto/sha256 is the Go
\* standard library; the model puts a mixing function of the whole message
\* (every byte and its position, two 16-bit lanes) in its place
RECURSIVE ChecksumFold(_, _, _)
ChecksumFold(msg, h, mult) ==
    IF msg = <<>> THEN h
    ELSE ChecksumFold(Tail(msg), (h * mult + Head(msg) + 1) % 65536, mult)

Checksum(msg) ==
    LET h1 == ChecksumFold(msg, 5381, 33)
        h2 == ChecksumFold(msg, 40503, 31)
    IN <<Shr(h1, 8), h1 % 256, Shr(h2, 8), h2 % 256>>

C32CheckEncodePrefixed(version, data, prefix) ==
    IF version >= 32 THEN Fail("invalid version")
    ELSE LET buffer == data \o Checksum(<<version>> \o data)
             capacity == GetMaxC32EncodeOutputLen(Len(buffer)) + 2
             result == Zeros(capacity)
             r == EncodeC32ToBuffer(buffer, SliceFrom(result, 2))
         IN IF r.panic THEN [data |-> Panic, isNil |-> FALSE, err |-> "panic"]
            ELSE IF r.err # "" THEN Fail(r.err)
            ELSE Ok(<<prefix, c32Chars[version + 1]>> \o Slice(r.output, 0, r.n))

\* a result of the form (version byte, data []byte, err error)
CheckOk(v, d) == [version |-> v, data |-> d, isNil |-> FALSE, err |-> ""]
CheckFail(e) == [version |-> 0, data |-> <<>>, isNil |-> TRUE, err |-> e]

\* C32CheckDecode without the comparison of the checksum
C32CheckDecodeUnverified(input) ==
    IF \E i \in 1..Len(input) : input[i] >= 128
    THEN CheckFail("invalid c32 string: must be ASCII")
    ELSE IF Len(input) < 2 THEN CheckFail("invalid c32 string: size less than 2")
    ELSE LET decoded == DecodeC32(SliceFrom(input, 1))
             versionDecoded == DecodeC32(<<input[1]>>)
         IN IF decoded.err # "" THEN CheckFail(decoded.err)
            ELSE IF Len(decoded.data) < 4
            THEN CheckFail("invalid c32 string: decoded byte length less than 4")
            ELSE IF versionDecoded.err # "" THEN CheckFail(versionDecoded.err)
            ELSE CheckOk(versionDecoded.data[1],
                         Slice(decoded.data, 0, Len(decoded.data) - 4))

C32CheckDecode(input) ==
    IF \E i \in 1..Len(input) : input[i] >= 128
    THEN CheckFail("invalid c32 string: must be ASCII")
    ELSE IF Len(input) < 2 THEN CheckFail("invalid c32 string: size less than 2")
    ELSE LET versionChar == input[1]
             dataPart == SliceFrom(input, 1)
             decoded == DecodeC32(dataPart)
         IN IF decoded.err # "" THEN CheckFail(decoded.err)
            ELSE IF Len(decoded.data) < 4
            THEN CheckFail("invalid c32 string: decoded byte length less than 4")
            ELSE LET dataBytes == Slice(decoded.data, 0, Len(decoded.data) - 4)
                     expectedSum == SliceFrom(decoded.data, Len(decoded.data) - 4)
                     versionDecoded == DecodeC32(<<versionChar>>)
                 IN IF versionDecoded.err # "" THEN CheckFail(versionDecoded.err)
                    ELSE LET version == versionDecoded.data[1]
                             computedSum == Checksum(<<version>> \o dataBytes)
                         IN IF computedSum # expectedSum
                            THEN CheckFail("checksum mismatch")
                            ELSE CheckOk(version, dataBytes)

\* a faulty DecodeC32Address: the leading tag is not stripped
DecodeC32AddressKeepsTag(c32AddressStr) ==
    IF Len(c32AddressStr) <= 5
    THEN CheckFail("invalid c32 address: address string smaller than 5 bytes")
    ELSE C32CheckDecode(c32AddressStr)

\* a DecodeC32Address that takes only 'S' for the leading tag
DecodeC32AddressChecksTag(c32AddressStr) ==
    IF Len(c32AddressStr) <= 5
    THEN CheckFail("invalid c32 address: address string smaller than 5 bytes")
    ELSE IF c32AddressStr[1] # 83 THEN CheckFail("invalid c32 address: bad prefix")
    ELSE C32CheckDecode(SliceFrom(c32AddressStr, 1))

DecodeC32Address(c32AddressStr) ==
    IF Len(c32AddressStr) <= 5
    THEN CheckFail("invalid c32 address: address string smaller than 5 bytes")
    ELSE C32CheckDecode(SliceFrom(c32AddressStr, 1))

\* EncodeC32Address(version, data): (string, error); 83 is 'S'
EncodeC32Address(version, data) == C32CheckEncodePrefixed(version, data, 83)

----------------------------------------------------------------------------
(* lib/address/base58.go: the checked form; lib/address/bitcoin_address.go *)

\* DecodeBase58Check without the comparison of the checksum
DecodeBase58CheckUnverified(input) ==
    LET decoded == DecodeBase58(input)
    IN IF decoded.err # "" THEN Fail(decoded.err)
       ELSE IF Len(decoded.data) < 4 THEN Fail("base58check data too short for checksum")
       ELSE Ok(Slice(decoded.data, 0, Len(decoded.data) - 4))

DecodeBase58Check(input) ==
    LET decoded == DecodeBase58(input)
    IN IF decoded.err # "" THEN Fail(decoded.err)
       ELSE IF Len(decoded.data) < 4 THEN Fail("base58check data too short for checksum")
       ELSE LET ckStart == Len(decoded.data) - 4
                data == Slice(decoded.data, 0, ckStart)
                checksum == SliceFrom(decoded.data, ckStart)
                expected == Checksum(data)
            IN IF \E i \in 1..4 : checksum[i] # expected[i]
               THEN Fail("base58check checksum mismatch")
               ELSE Ok(data)

EncodeBase58Check(data) == EncodeBase58(data \o Checksum(data))

AddressVersionMainnetSinglesig == 0
AddressVersionMainnetMultisig == 5
AddressVersionTestnetSinglesig == 111
AddressVersionTestnetMultisig == 196

VersionByteToAddressType(version) ==
    CASE version = AddressVersionMainnetSinglesig ->
            [addrType |-> "PublicKeyHash", networkID |-> "Mainnet", valid |-> TRUE]
      [] version = AddressVersionMainnetMultisig ->
            [addrType |-> "ScriptHash", networkID |-> "Mainnet", valid |-> TRUE]
      [] version = AddressVersionTestnetSinglesig ->
            [addrType |-> "PublicKeyHash", networkID |-> "Testnet", valid |-> TRUE]
      [] version = AddressVersionTestnetMultisig ->
            [addrType |-> "ScriptHash", networkID |-> "Testnet", valid |-> TRUE]
      [] OTHER -> [addrType |-> "PublicKeyHash", networkID |-> "Mainnet", valid |-> FALSE]

\* AddressTypeToVersionByte with the mainnet cases only
AddressTypeToVersionByteMainnetOnly(addrType, networkID) ==
    CASE addrType = "PublicKeyHash" /\ networkID = "Mainnet" -> AddressVersionMainnetSinglesig
      [] addrType = "ScriptHash" /\ networkID = "Mainnet" -> AddressVersionMainnetMultisig
      [] OTHER -> 0

AddressTypeToVersionByte(addrType, networkID) ==
    CASE addrType = "PublicKeyHash" /\ networkID = "Mainnet" -> AddressVersionMainnetSinglesig
      [] addrType = "ScriptHash" /\ networkID = "Mainnet" -> AddressVersionMainnetMultisig
      [] addrType = "PublicKeyHash" /\ networkID \in {"Testnet", "Regtest"} ->
            AddressVersionTestnetSinglesig
      [] addrType = "ScriptHash" /\ networkID \in {"Testnet", "Regtest"} ->
            AddressVersionTestnetMultisig
      [] OTHER -> 0

DecodeBitcoinAddress(addrb58) ==
    LET bytes == DecodeBase58Check(addrb58)
    IN IF bytes.err # "" THEN BtcFail(bytes.err)
       ELSE IF Len(bytes.data) # 21 THEN BtcFail("invalid address: bytes")
       ELSE LET version == bytes.data[1]
                t == VersionByteToAddressType(version)
            IN IF ~t.valid THEN BtcFail("invalid address: unrecognized version")
               ELSE BtcOk([AddrType |-> t.addrType, NetworkID |-> t.networkID,
                           Hash160Bytes |-> Slice(bytes.data, 1, 21)])

EncodeBitcoinAddress(addr) ==
    LET version == AddressTypeToVersionByte(addr.AddrType, addr.NetworkID)
    IN EncodeBase58Check(<<version>> \o addr.Hash160Bytes)

----------------------------------------------------------------------------
(* The driver of the checked Base58 forms: a caller encodes a payload, or  *)
(* takes a string, and decodes it as Base58Check or as a Bitcoin address;  *)
(* what a decoder accepted is encoded again.                               *)

\* the character after c in the alphabet ('1' after 'z')
B58NextChar(c) == base58Chars[((base58Digits[c] + 1) % 58) + 1]

\* a string changed in one place: the last character replaced by the next
\* of the alphabet or by '0', the last character lost, a '1' put in front
B58Altered(text) ==
    { SubSeq(text, 1, Len(text) - 1) \o <<B58NextChar(text[Len(text)])>>,
      SubSeq(text, 1, Len(text) - 1) \o <<48>>,
      SubSeq(text, 1, Len(text) - 1),
      <<49>> \o text }

B58CheckEncode ==
    /\ b58pc = "cready"
    /\ b58text' = EncodeBase58Check(b58data)
    /\ b58pc' = "cenc"
    /\ UNCHANGED <<b58data, b58out, b58re, btc>>
    /\ UNCHANGED notB58vars

\* the encoded string reaches the decoder changed in one place
B58AlterText ==
    /\ b58pc = "cenc"
    /\ b58text' \in B58Altered(b58text)
    /\ b58pc' = "text"
    /\ UNCHANGED <<b58data, b58out, b58re, btc>>
    /\ UNCHANGED notB58vars

B58CheckDecode ==
    /\ b58pc \in {"cenc", "text"}
    /\ b58out' = DecodeBase58Check(b58text)
    /\ b58pc' = IF b58pc = "cenc" THEN "cdec" ELSE "tdec"
    /\ UNCHANGED <<b58data, b58text, b58re, btc>>
    /\ UNCHANGED notB58vars

B58CheckReencode ==
    /\ b58pc \in {"cdec", "tdec"}
    /\ b58out.err = ""
    /\ b58re' = EncodeBase58Check(b58out.data)
    /\ b58pc' = "creenc"
    /\ UNCHANGED <<b58data, b58text, b58out, btc>>
    /\ UNCHANGED notB58vars

BtcDecode ==
    /\ b58pc \in {"cenc", "text"}
    /\ btc' = DecodeBitcoinAddress(b58text)
    /\ b58pc' = "bdec"
    /\ UNCHANGED <<b58data, b58text, b58out, b58re>>
    /\ UNCHANGED notB58vars

BtcEncode ==
    /\ b58pc = "bdec"
    /\ btc.err = ""
    /\ b58re' = EncodeBitcoinAddress(btc.addr)
    /\ b58pc' = "benc"
    /\ UNCHANGED <<b58data, b58text, b58out, btc>>
    /\ UNCHANGED notB58vars

B58Next ==
    \/ B58Encode \/ B58Decode
    \/ B58CheckEncode \/ B58AlterText \/ B58CheckDecode \/ B58CheckReencode
    \/ BtcDecode \/ BtcEncode

----------------------------------------------------------------------------
(* The C32 driver: a caller encodes a payload in one of the three forms    *)
(* (plain, checked with a prefix character, address) and decodes the text. *)

\* byte values the driver draws its payloads from
C32Bytes == {0, 1, 31, 128, 255}

\* version bytes: valid ones (< 32), the first invalid one and the largest
C32Versions == {0, 22, 31, 32, 255}

\* the characters short strings are drawn from: 0 O o 1 I l Z z, and outside
\* the table U and the byte 200
C32TextChars == {48, 79, 111, 49, 73, 108, 90, 122, 85, 200}

\* the strings a caller hands a decoder directly
C32Strings == SeqsUpTo(C32TextChars, MaxC32Text)

\* the character after c in the alphabet ('0' after 'Z')
C32NextChar(c) == c32Chars[((c32CharMap[c] + 1) % 32) + 1]

\* c as a writer may put it: a letter in lower case, O for 0, L for 1
C32Confuse(c) ==
    IF c = 48 THEN 79 ELSE IF c = 49 THEN 76 ELSE IF c >= 65 /\ c <= 90 THEN c + 32 ELSE c

\* a string as it may reach a decoder: written with confusable characters,
\* its last character replaced by the next of the alphabet or by 'U', and
\* cut to 5 characters
C32Altered(text) ==
    { [i \in 1..Len(text) |-> C32Confuse(text[i])],
      SubSeq(text, 1, Len(text) - 1) \o <<C32NextChar(text[Len(text)])>>,
      SubSeq(text, 1, Len(text) - 1) \o <<85>>,
      SubSeq(text, 1, 5) }

\* prefix characters handed to C32CheckEncodePrefixed: 'S' and '0'
C32Prefixes == {83, 48}

\* 20-byte hashes: zero, all ones, nineteen zero bytes before a one, and the
\* hash of the address vector of the repository's tests
C32Hashes ==
    { Zeros(20),
      [i \in 1..20 |-> 255],
      [i \in 1..20 |-> IF i = 20 THEN 1 ELSE 0],
      <<164, 111, 248, 136, 134, 194, 239, 151, 98, 217,
        112, 180, 210, 198, 54, 120, 131, 91, 211, 157>> }

C32Idle ==
    /\ c32pc = "idle" /\ c32ver = 0 /\ c32data = <<>>
    /\ c32text = Fail("") /\ c32out = CheckFail("")

C32Init ==
    /\ \/ /\ c32pc = "ready"
          /\ c32ver \in C32Versions
          /\ c32data \in SeqsUpTo(C32Bytes, MaxC32Len) \cup C32Hashes
          /\ c32text = Fail("")
       \/ /\ c32pc = "text"
          /\ c32ver = 0
          /\ c32data = <<>>
          /\ c32text \in { Ok(t) : t \in C32Strings }
    /\ c32out = CheckFail("")

C32Encode ==
    /\ c32pc = "ready"
    /\ c32text' = Ok(EncodeC32(c32data))
    /\ c32pc' = "enc"
    /\ UNCHANGED <<c32ver, c32data, c32out>>
    /\ UNCHANGED notC32vars

C32Decode ==
    /\ c32pc = "enc"
    /\ LET r == DecodeC32(c32text.data)
       IN c32out' = [version |-> 0, data |-> r.data, isNil |-> r.isNil, err |-> r.err]
    /\ c32pc' = "dec"
    /\ UNCHANGED <<c32ver, c32data, c32text>>
    /\ UNCHANGED notC32vars

C32CheckEncode ==
    /\ c32pc = "ready"
    /\ \E prefix \in C32Prefixes :
          c32text' = C32CheckEncodePrefixed(c32ver, c32data, prefix)
    /\ c32pc' = "cenc"
    /\ UNCHANGED <<c32ver, c32data, c32out>>
    /\ UNCHANGED notC32vars

\* the caller removes the prefix character and decodes the rest
C32CheckDecodeStep ==
    /\ c32pc = "cenc"
    /\ c32text.err = ""
    /\ c32out' = C32CheckDecode(SliceFrom(c32text.data, 1))
    /\ c32pc' = "cdec"
    /\ UNCHANGED <<c32ver, c32data, c32text>>
    /\ UNCHANGED notC32vars

C32AddressEncode ==
    /\ c32pc = "ready"
    /\ c32text' = EncodeC32Address(c32ver, c32data)
    /\ c32pc' = "aenc"
    /\ UNCHANGED <<c32ver, c32data, c32out>>
    /\ UNCHANGED notC32vars

C32AddressDecode ==
    /\ c32pc = "aenc"
    /\ c32text.err = ""
    /\ c32out' = DecodeC32Address(c32text.data)
    /\ c32pc' = "adec"
    /\ UNCHANGED <<c32ver, c32data, c32text>>
    /\ UNCHANGED notC32vars

\* an encoded string reaches a decoder altered: a checked encoding without
\* its prefix character, or an address
C32AlterText ==
    /\ c32pc \in {"cenc", "aenc"}
    /\ c32text.err = ""
    /\ Len(c32data) <= MaxC32Altered \/ c32data \in C32Hashes
    /\ \E t \in C32Altered(IF c32pc = "cenc" THEN SliceFrom(c32text.data, 1)
                            ELSE c32text.data) :
          c32text' = Ok(t)
    /\ c32pc' = "text"
    /\ UNCHANGED <<c32ver, c32data, c32out>>
    /\ UNCHANGED notC32vars

C32DecodeText ==
    /\ c32pc = "text"
    /\ LET r == DecodeC32(c32text.data)
       IN c32out' = [version |-> 0, data |-> r.data, isNil |-> r.isNil, err |-> r.err]
    /\ c32pc' = "tdec"
    /\ UNCHANGED <<c32ver, c32data, c32text>>
    /\ UNCHANGED notC32vars

C32CheckDecodeText ==
    /\ c32pc = "text"
    /\ c32out' = C32CheckDecode(c32text.data)
    /\ c32pc' = "tcdec"
    /\ UNCHANGED <<c32ver, c32data, c32text>>
    /\ UNCHANGED notC32vars

C32AddressDecodeText ==
    /\ c32pc = "text"
    /\ c32out' = DecodeC32Address(c32text.data)
    /\ c32pc' = "tadec"
    /\ UNCHANGED <<c32ver, c32data, c32text>>
    /\ UNCHANGED notC32vars

C32Next ==
    \/ C32Encode \/ C32Decode
    \/ C32CheckEncode \/ C32CheckDecodeStep
    \/ C32AddressEncode \/ C32AddressDecode
    \/ C32AlterText \/ C32DecodeText \/ C32CheckDecodeText \/ C32AddressDecodeText

----------------------------------------------------------------------------
(* lib/clarity_value: constants and the bytes.Reader the decoder reads.    *)

MaxStringLen == 128
MaxValueSize == 1048576
ContractMinNameLength == 1
ContractMaxNameLength == 40

\* the depth at which decodeClarityValueInternal gives up
MaxDepth == 16

PrefixInt == 0
PrefixUInt == 1
PrefixBuffer == 2
PrefixBoolTrue == 3
PrefixBoolFalse == 4
PrefixPrincipalStandard == 5
PrefixPrincipalContract == 6
PrefixResponseOk == 7
PrefixResponseErr == 8
PrefixOptionalNone == 9
PrefixOptionalSome == 10
PrefixList == 11
PrefixTuple == 12
PrefixStringASCII == 13
PrefixStringUTF8 == 14

\* ReadByte as a peek: the byte is returned and the reader does not move
ReadBytePeek(input, pos) ==
    IF pos >= Len(input) THEN [err |-> "EOF", pos |-> pos, b |-> 0]
    ELSE [err |-> "", pos |-> pos, b |-> input[pos + 1]]

\* r.ReadByte() at offset pos of input: io.EOF at the end
ReadByte(input, pos) ==
    IF pos >= Len(input) THEN [err |-> "EOF", pos |-> pos, b |-> 0]
    ELSE [err |-> "", pos |-> pos + 1, b |-> input[pos + 1]]

\* io.ReadFull(r, buf) with len(buf) = n: nothing is read for n = 0; io.EOF
\* when no byte is left; io.ErrUnexpectedEOF, with the rest consumed, when
\* fewer than n are left
ReadFull(input, pos, n) ==
    IF n = 0 THEN [err |-> "", pos |-> pos, data |-> <<>>]
    ELSE IF pos >= Len(input) THEN [err |-> "EOF", pos |-> pos, data |-> <<>>]
    ELSE IF pos + n > Len(input)
         THEN [err |-> "unexpected EOF", pos |-> Len(input), data |-> <<>>]
         ELSE [err |-> "", pos |-> pos + n, data |-> Slice(input, pos, pos + n)]

\* binary.Read(r, binary.BigEndian, &x) for a uint32 x: the value is kept as
\* its two 16-bit halves
ReadU32(input, pos) ==
    LET r == ReadFull(input, pos, 4)
    IN IF r.err # "" THEN [err |-> r.err, pos |-> r.pos, hi |-> 0, lo |-> 0]
       ELSE [err |-> "", pos |-> r.pos,
             hi |-> r.data[1] * 256 + r.data[2],
             lo |-> r.data[3] * 256 + r.data[4]]

\* the size check written with >= in place of >
U32GreaterOrEqual(u, limit) ==
    \/ u.hi > limit \div 65536
    \/ u.hi = limit \div 65536 /\ u.lo >= limit % 65536

\* u > limit for a uint32 u read by ReadU32
U32Greater(u, limit) ==
    \/ u.hi > limit \div 65536
    \/ u.hi = limit \div 65536 /\ u.lo > limit % 65536

\* the value of a uint32 that is at most MaxValueSize
U32Value(u) == u.hi * 65536 + u.lo

\* events of one decode, in the order they happen: the entry into
\* decodeClarityValueInternal at a depth, and each make() of a slice
CallEvent(depth, pos) == [ev |-> "call", at |-> pos, n |-> depth]
AllocEvent(pos, n) == [ev |-> "alloc", at |-> pos, n |-> n]

----------------------------------------------------------------------------
(* lib/clarity_value/types.go: names.                                      *)

IsLetter(c) == (c >= 65 /\ c <= 90) \/ (c >= 97 /\ c <= 122)
IsDigit(c) == c >= 48 /\ c <= 57

\* [-_!?+<>=/*]
IsNameSymbol(c) == c \in {45, 95, 33, 63, 43, 60, 62, 61, 47, 42}

\* ^[a-zA-Z]([a-zA-Z0-9]|[-_!?+<>=/*])*$|^[-+=/*]$|^[<>]=?$
clarityNameRegex(s) ==
    \/ /\ Len(s) >= 1
       /\ IsLetter(s[1])
       /\ \A i \in 2..Len(s) : IsLetter(s[i]) \/ IsDigit(s[i]) \/ IsNameSymbol(s[i])
    \/ Len(s) = 1 /\ s[1] \in {45, 43, 61, 47, 42}
    \/ Len(s) = 1 /\ s[1] \in {60, 62}
    \/ Len(s) = 2 /\ s[1] \in {60, 62} /\ s[2] = 61

\* ValidateClarityName without the check of the length
ValidateClarityNameNoLimit(s) ==
    IF clarityNameRegex(s) THEN [name |-> s, err |-> ""]
    ELSE [name |-> <<>>, err |-> "bad name value ClarityName"]

\* ValidateClarityName(s): (ClarityName, error)
ValidateClarityName(s) ==
    IF Len(s) > MaxStringLen THEN [name |-> <<>>, err |-> "bad name value ClarityName"]
    ELSE IF clarityNameRegex(s) THEN [name |-> s, err |-> ""]
    ELSE [name |-> <<>>, err |-> "bad name value ClarityName"]

\* ^[a-zA-Z]([a-zA-Z0-9]|[-_])*$|^__transient$
contractNameRegex(s) ==
    \/ /\ Len(s) >= 1
       /\ IsLetter(s[1])
       /\ \A i \in 2..Len(s) : IsLetter(s[i]) \/ IsDigit(s[i]) \/ s[i] \in {45, 95}
    \/ s = <<95, 95, 116, 114, 97, 110, 115, 105, 101, 110, 116>>

\* ValidateContractName(s): (ContractName, error)
ValidateContractName(s) ==
    IF Len(s) > MaxStringLen THEN [name |-> <<>>, err |-> "bad name value ContractName"]
    ELSE IF contractNameRegex(s) THEN [name |-> s, err |-> ""]
    ELSE [name |-> <<>>, err |-> "bad name value ContractName"]

----------------------------------------------------------------------------
(* lib/clarity_value/deserialize.go                                        *)

\* DecodeClarityName(r): [name, err, pos, log]
DecodeClarityName(input, pos) ==
    LET l == ReadByte(input, pos)
    IN IF l.err # "" THEN [name |-> <<>>, err |-> l.err, pos |-> l.pos, log |-> <<>>]
       ELSE IF l.b > MaxStringLen
       THEN [name |-> <<>>, err |-> "Failed to deserialize clarity name: too long",
             pos |-> l.pos, log |-> <<>>]
       ELSE LET alloc == <<AllocEvent(l.pos, l.b)>>
                d == ReadFull(input, l.pos, l.b)
            IN IF d.err # ""
               THEN [name |-> <<>>, err |-> d.err, pos |-> d.pos, log |-> alloc]
               ELSE LET v == ValidateClarityName(d.data)
                    IN [name |-> v.name, err |-> v.err, pos |-> d.pos, log |-> alloc]

\* DecodeContractName(r): [name, err, pos]
DecodeContractName(input, pos) ==
    LET l == ReadByte(input, pos)
    IN IF l.err # "" THEN [name |-> <<>>, err |-> l.err, pos |-> l.pos]
       ELSE IF l.b < ContractMinNameLength \/ l.b > ContractMaxNameLength
       THEN [name |-> <<>>,
             err |-> "Failed to deserialize contract name: too short or too long",
             pos |-> l.pos]
       ELSE LET d == ReadFull(input, l.pos, l.b)
            IN IF d.err # "" THEN [name |-> <<>>, err |-> d.err, pos |-> d.pos]
               ELSE LET v == ValidateContractName(d.data)
                    IN [name |-> v.name, err |-> v.err, pos |-> d.pos]

\* a decoder that refuses a version byte no C32 address can carry
DecodeStandardPrincipalDataChecked(input, pos) ==
    LET v == ReadByte(input, pos)
        zero == [Version |-> 0, Hash |-> Zeros(20)]
    IN IF v.err # "" THEN [principal |-> zero, err |-> v.err, pos |-> v.pos]
       ELSE IF v.b >= 32 THEN [principal |-> zero, err |-> "invalid version", pos |-> v.pos]
       ELSE LET h == ReadFull(input, v.pos, 20)
            IN IF h.err # "" THEN [principal |-> zero, err |-> h.err, pos |-> h.pos]
               ELSE [principal |-> [Version |-> v.b, Hash |-> h.data],
                     err |-> "", pos |-> h.pos]

\* DecodeStandardPrincipalData(r): [principal, err, pos]
DecodeStandardPrincipalData(input, pos) ==
    LET v == ReadByte(input, pos)
        zero == [Version |-> 0, Hash |-> Zeros(20)]
    IN IF v.err # "" THEN [principal |-> zero, err |-> v.err, pos |-> v.pos]
       ELSE LET h == ReadFull(input, v.pos, 20)
            IN IF h.err # "" THEN [principal |-> zero, err |-> h.err, pos |-> h.pos]
               ELSE [principal |-> [Version |-> v.b, Hash |-> h.data],
                     err |-> "", pos |-> h.pos]

\* the width of the well-formed UTF-8 sequence at s[i] (1-based), or 0:
\* utf8.DecodeRuneInString behind "for _, r := range str"
Utf8Width(s, i) ==
    LET b0 == s[i]
        has(k) == i + k <= Len(s)
        in(k, lo, hi) == has(k) /\ s[i + k] >= lo /\ s[i + k] <= hi
        cont(k) == in(k, 128, 191)
    IN IF b0 < 128 THEN 1
       ELSE IF b0 >= 194 /\ b0 <= 223 THEN (IF cont(1) THEN 2 ELSE 0)
       ELSE IF b0 = 224 THEN (IF in(1, 160, 191) /\ cont(2) THEN 3 ELSE 0)
       ELSE IF (b0 >= 225 /\ b0 <= 236) \/ b0 \in {238, 239}
            THEN (IF cont(1) /\ cont(2) THEN 3 ELSE 0)
       ELSE IF b0 = 237 THEN (IF in(1, 128, 159) /\ cont(2) THEN 3 ELSE 0)
       ELSE IF b0 = 240 THEN (IF in(1, 144, 191) /\ cont(2) /\ cont(3) THEN 4 ELSE 0)
       ELSE IF b0 >= 241 /\ b0 <= 243
            THEN (IF cont(1) /\ cont(2) /\ cont(3) THEN 4 ELSE 0)
       ELSE IF b0 = 244 THEN (IF in(1, 128, 143) /\ cont(2) /\ cont(3) THEN 4 ELSE 0)
       ELSE 0

\* the loop of NewStringUTF8Value from s[i] on: []byte(string(r)) per rune; a
\* byte that starts no well-formed sequence is the rune U+FFFD, EF BF BD
RECURSIVE Utf8Groups(_, _, _)
Utf8Groups(s, i, result) ==
    IF i > Len(s) THEN result
    ELSE LET w == Utf8Width(s, i)
         IN IF w = 0 THEN Utf8Groups(s, i + 1, Append(result, <<239, 191, 189>>))
            ELSE Utf8Groups(s, i + w, Append(result, SubSeq(s, i, i + w - 1)))

NewStringUTF8Value(bytes) == [type |-> "utf8", groups |-> Utf8Groups(bytes, 1, <<>>)]

\* ClarityValue{}: no bytes, a nil Value
ZeroClarityValue == [SerializedBytes |-> <<>>, hasBytes |-> FALSE, Value |-> [type |-> "nil"]]

NewClarityValue(value) == [SerializedBytes |-> <<>>, hasBytes |-> FALSE, Value |-> value]

NewClarityValueWithBytes(serializedBytes, value) ==
    [SerializedBytes |-> serializedBytes, hasBytes |-> TRUE, Value |-> value]

\* what a case of the switch leaves behind: the value, or the error it
\* returned with, the reader's offset and the events so far
BodyOk(value, pos, log) == [value |-> value, err |-> "", pos |-> pos, log |-> log]
BodyErr(err, pos, log) == [value |-> [type |-> "nil"], err |-> err, pos |-> pos, log |-> log]

BufferValue(data) == [type |-> "buffer", data |-> data]
StringASCIIValue(data) == [type |-> "ascii", data |-> data]

\* value = BufferValue(data), StringASCIIValue(data) or NewStringUTF8Value(data)
SizedValue(prefix, data) ==
    CASE prefix = PrefixBuffer -> BufferValue(data)
      [] prefix = PrefixStringASCII -> StringASCIIValue(data)
      [] prefix = PrefixStringUTF8 -> NewStringUTF8Value(data)

\* after the u32 length u of a Buffer, StringASCII or StringUTF8 was read:
\* the size check, make([]byte, n) and io.ReadFull
SizedBody(input, u, illegal, prefix) ==
    IF u.err # "" THEN BodyErr(u.err, u.pos, <<>>)
    ELSE IF U32Greater(u, MaxValueSize) THEN BodyErr(illegal, u.pos, <<>>)
    ELSE LET alloc == <<AllocEvent(u.pos, U32Value(u))>>
             d == ReadFull(input, u.pos, U32Value(u))
         IN IF d.err # "" THEN BodyErr(d.err, d.pos, alloc)
            ELSE BodyOk(SizedValue(prefix, d.data), d.pos, alloc)

\* the cases Buffer, StringASCII and StringUTF8
DecodeSized(input, pos, illegal, prefix) ==
    SizedBody(input, ReadU32(input, pos), illegal, prefix)

\* a map assignment that keeps the value a key already has
MapPutKeepsFirst(data, key, val) ==
    [k \in DOMAIN data \cup {key} |-> IF k \in DOMAIN data THEN data[k] ELSE val]

\* data[key] = val on a Go map
MapPut(data, key, val) ==
    [k \in DOMAIN data \cup {key} |-> IF k = key THEN val ELSE data[k]]

\* the child decoded at its parent's depth
ChildDepthOfParent(depth) == depth

\* the child's depth: depth + 1
ChildDepth(depth) == depth + 1

\* a result of decodeClarityValueInternal: (ClarityValue, error), with the
\* reader's offset at the return and the events of the call
DecodeOk(cv, pos, log) == [cv |-> cv, err |-> "", pos |-> pos, log |-> log]
DecodeErr(err, pos, log) == [cv |-> ZeroClarityValue, err |-> err, pos |-> pos, log |-> log]

\* the capture with startPos taken after the header byte was read
CaptureBytesAfterHeader(input, startPos, endPos) ==
    LET d == ReadFull(input, startPos + 1, endPos - startPos - 1)
    IN [err |-> d.err, data |-> d.data,
        pos |-> IF d.err # "" THEN d.pos ELSE endPos]

\* a capture that seeks back to startPos and copies the bytes without moving
\* the reader: the cursor is left where the value began
CaptureBytesStaysBack(input, startPos, endPos) ==
    LET d == ReadFull(input, startPos, endPos - startPos)
    IN [err |-> d.err, data |-> d.data, pos |-> startPos]

\* under withBytes: seek back to startPos, read endPos - startPos bytes, seek
\* forward to currentPos
CaptureBytes(input, startPos, endPos) ==
    LET currentPos == endPos
        d == ReadFull(input, startPos, endPos - startPos)
    IN [err |-> d.err, data |-> d.data,
        pos |-> IF d.err # "" THEN d.pos ELSE currentPos]

\* the capture once the bytes c were read back
CapturedResult(c, value, log) ==
    IF c.err # "" THEN DecodeErr(c.err, c.pos, log)
    ELSE DecodeOk(NewClarityValueWithBytes(c.data, value), c.pos, log)

\* the returns of decodeClarityValueInternal, body being what the depth
\* check, the read of the header and the switch left
DecodeTail(input, startPos, depth, withBytes, body) ==
    IF body.err # ""
    THEN DecodeErr(body.err, body.pos, <<CallEvent(depth, startPos)>> \o body.log)
    ELSE IF withBytes
    THEN CapturedResult(CaptureBytes(input, startPos, body.pos), body.value,
                        <<CallEvent(depth, startPos)>> \o body.log
                        \o <<AllocEvent(body.pos, body.pos - startPos)>>)
    ELSE DecodeOk(NewClarityValue(body.value), body.pos,
                  <<CallEvent(depth, startPos)>> \o body.log)

RECURSIVE decodeClarityValueInternal(_, _, _, _)
RECURSIVE ListItem(_, _, _, _, _, _, _)
RECURSIVE TupleKey(_, _, _, _, _, _, _)
RECURSIVE TupleVal(_, _, _, _, _, _, _, _)

\* the List loop from the return of the call for items[i] on: the error, or
\* items[i] = item and the next turn; st = [items, log]
ListItem(input, depth, withBytes, i, listLen, st, item) ==
    CASE item.err # "" -> BodyErr(item.err, item.pos, st.log \o item.log)
      [] i + 1 >= listLen ->
            BodyOk([type |-> "list", items |-> Append(st.items, item.cv)],
                   item.pos, st.log \o item.log)
      [] OTHER ->
            ListItem(input, depth, withBytes, i + 1, listLen,
                     [items |-> Append(st.items, item.cv), log |-> st.log \o item.log],
                     decodeClarityValueInternal(input, item.pos, ChildDepth(depth),
                                                withBytes))

\* the List case after its u32 count u was read: the size check,
\* make([]ClarityValue, listLen) and the loop
ListBody(input, depth, withBytes, u) ==
    CASE u.err # "" -> BodyErr(u.err, u.pos, <<>>)
      [] U32Greater(u, MaxValueSize) -> BodyErr("Illegal list type size", u.pos, <<>>)
      [] U32Value(u) = 0 ->
            BodyOk([type |-> "list", items |-> <<>>], u.pos, <<AllocEvent(u.pos, 0)>>)
      [] OTHER ->
            ListItem(input, depth, withBytes, 0, U32Value(u),
                     [items |-> <<>>, log |-> <<AllocEvent(u.pos, U32Value(u))>>],
                     decodeClarityValueInternal(input, u.pos, ChildDepth(depth),
                                                withBytes))

\* the Tuple loop from the return of the call for the i-th value on: the
\* error, or data[key] = val and the next turn; st = [data, log]
TupleVal(input, depth, withBytes, i, tupleLen, st, key, val) ==
    CASE val.err # "" -> BodyErr(val.err, val.pos, st.log \o key.log \o val.log)
      [] i + 1 >= tupleLen ->
            BodyOk([type |-> "tuple", data |-> MapPut(st.data, key.name, val.cv)],
                   val.pos, st.log \o key.log \o val.log)
      [] OTHER ->
            TupleKey(input, depth, withBytes, i + 1, tupleLen,
                     [data |-> MapPut(st.data, key.name, val.cv),
                      log |-> st.log \o key.log \o val.log],
                     DecodeClarityName(input, val.pos))

\* the Tuple loop from the return of DecodeClarityName for the i-th key on
TupleKey(input, depth, withBytes, i, tupleLen, st, key) ==
    CASE key.err # "" -> BodyErr(key.err, key.pos, st.log \o key.log)
      [] OTHER ->
            TupleVal(input, depth, withBytes, i, tupleLen, st, key,
                     decodeClarityValueInternal(input, key.pos, ChildDepth(depth),
                                                withBytes))

\* the Tuple case after its u32 count u was read: the size check,
\* make(TupleValue) and the loop
TupleBody(input, depth, withBytes, u) ==
    CASE u.err # "" -> BodyErr(u.err, u.pos, <<>>)
      [] U32Greater(u, MaxValueSize) -> BodyErr("Illegal tuple type size", u.pos, <<>>)
      [] U32Value(u) = 0 -> BodyOk([type |-> "tuple", data |-> <<>>], u.pos, <<>>)
      [] OTHER ->
            TupleKey(input, depth, withBytes, 0, U32Value(u),
                     [data |-> <<>>, log |-> <<>>], DecodeClarityName(input, u.pos))

\* the wrapper cases without the check of the child's error
WrappedResultUnchecked(type, inner) ==
    BodyOk([type |-> type, Value |-> inner.cv], inner.pos, inner.log)

\* the cases ResponseOk, ResponseErr and OptionalSome once the child returned
WrappedResult(type, inner) ==
    IF inner.err # "" THEN BodyErr(inner.err, inner.pos, inner.log)
    ELSE BodyOk([type |-> type, Value |-> inner.cv], inner.pos, inner.log)

\* Int and UInt read as 128-bit numbers that must fit 64 bits: payload bytes
\* 0..7 other than zero are refused
IntBodyChecked(type, d) ==
    IF d.err # "" THEN BodyErr(d.err, d.pos, <<>>)
    ELSE IF SubSeq(d.data, 1, 8) # Zeros(8) THEN BodyErr("integer out of range", d.pos, <<>>)
    ELSE BodyOk([type |-> type, bits |-> SliceFrom(d.data, 8)], d.pos, <<>>)

\* the cases Int and UInt: 16 bytes, of which buf[8:] is the value
IntBody(type, d) ==
    IF d.err # "" THEN BodyErr(d.err, d.pos, <<>>)
    ELSE BodyOk([type |-> type, bits |-> SliceFrom(d.data, 8)], d.pos, <<>>)

PrincipalBody(p) ==
    IF p.err # "" THEN BodyErr(p.err, p.pos, <<>>)
    ELSE BodyOk([type |-> "principal", principal |-> p.principal], p.pos, <<>>)

ContractNameBody(issuer, name) ==
    IF name.err # "" THEN BodyErr(name.err, name.pos, name.log)
    ELSE BodyOk([type |-> "contract", Issuer |-> issuer.principal, Name |-> name.name],
                name.pos, name.log)

ContractBody(input, issuer) ==
    IF issuer.err # "" THEN BodyErr(issuer.err, issuer.pos, <<>>)
    ELSE ContractNameBody(issuer, DecodeClarityName(input, issuer.pos))

\* a default case that takes an unknown prefix for "none"
BadTypePrefixAsNone(header) == BodyOk([type |-> "none"], header.pos, <<>>)

\* the default case of the switch, header being what r.ReadByte() returned
BadTypePrefix(header) == BodyErr("Bad type prefix", header.pos, <<>>)

\* decodeClarityValueInternal(r, depth, withBytes) for a reader at offset
\* pos: the depth check, the read of the header and the switch on it
decodeClarityValueInternal(input, pos, depth, withBytes) ==
    DecodeTail(input, pos, depth, withBytes,
      CASE depth >= MaxDepth -> BodyErr("TypeSignatureTooDeep", pos, <<>>)
        [] ReadByte(input, pos).err # "" ->
              BodyErr(ReadByte(input, pos).err, ReadByte(input, pos).pos, <<>>)
        [] ReadByte(input, pos).b = PrefixInt ->
              IntBody("int", ReadFull(input, ReadByte(input, pos).pos, 16))
        [] ReadByte(input, pos).b = PrefixUInt ->
              IntBody("uint", ReadFull(input, ReadByte(input, pos).pos, 16))
        [] ReadByte(input, pos).b = PrefixBuffer ->
              DecodeSized(input, ReadByte(input, pos).pos, "Illegal buffer type size",
                          PrefixBuffer)
        [] ReadByte(input, pos).b = PrefixBoolTrue ->
              BodyOk([type |-> "bool", b |-> TRUE], ReadByte(input, pos).pos, <<>>)
        [] ReadByte(input, pos).b = PrefixBoolFalse ->
              BodyOk([type |-> "bool", b |-> FALSE], ReadByte(input, pos).pos, <<>>)
        [] ReadByte(input, pos).b = PrefixPrincipalStandard ->
              PrincipalBody(DecodeStandardPrincipalData(input, ReadByte(input, pos).pos))
        [] ReadByte(input, pos).b = PrefixPrincipalContract ->
              ContractBody(input,
                           DecodeStandardPrincipalData(input, ReadByte(input, pos).pos))
        [] ReadByte(input, pos).b = PrefixResponseOk ->
              WrappedResult("ok",
                  decodeClarityValueInternal(input, ReadByte(input, pos).pos,
                                             ChildDepth(depth), withBytes))
        [] ReadByte(input, pos).b = PrefixResponseErr ->
              WrappedResult("err",
                  decodeClarityValueInternal(input, ReadByte(input, pos).pos,
                                             ChildDepth(depth), withBytes))
        [] ReadByte(input, pos).b = PrefixOptionalNone ->
              BodyOk([type |-> "none"], ReadByte(input, pos).pos, <<>>)
        [] ReadByte(input, pos).b = PrefixOptionalSome ->
              WrappedResult("some",
                  decodeClarityValueInternal(input, ReadByte(input, pos).pos,
                                             ChildDepth(depth), withBytes))
        [] ReadByte(input, pos).b = PrefixList ->
              ListBody(input, depth, withBytes,
                       ReadU32(input, ReadByte(input, pos).pos))
        [] ReadByte(input, pos).b = PrefixTuple ->
              TupleBody(input, depth, withBytes,
                        ReadU32(input, ReadByte(input, pos).pos))
        [] ReadByte(input, pos).b = PrefixStringASCII ->
              DecodeSized(input, ReadByte(input, pos).pos,
                          "Illegal string-ascii type size", PrefixStringASCII)
        [] ReadByte(input, pos).b = PrefixStringUTF8 ->
              DecodeSized(input, ReadByte(input, pos).pos,
                          "Illegal string-utf8 type size", PrefixStringUTF8)
        [] OTHER -> BadTypePrefix(ReadByte(input, pos)))

\* DecodeClarityValue(r, withBytes) for a reader at offset pos
DecodeClarityValue(input, pos, withBytes) ==
    decodeClarityValueInternal(input, pos, 0, withBytes)

----------------------------------------------------------------------------
(* lib/clarity_value/types.go: the TypePrefix method of each kind of value *)

\* a BoolValue.TypePrefix that does not look at the value
TypePrefixBoolTrueOnly(v) ==
    CASE v.type = "int" -> PrefixInt
      [] v.type = "uint" -> PrefixUInt
      [] v.type = "buffer" -> PrefixBuffer
      [] v.type = "bool" -> PrefixBoolTrue
      [] v.type = "principal" -> PrefixPrincipalStandard
      [] v.type = "contract" -> PrefixPrincipalContract
      [] v.type = "ok" -> PrefixResponseOk
      [] v.type = "err" -> PrefixResponseErr
      [] v.type = "none" -> PrefixOptionalNone
      [] v.type = "some" -> PrefixOptionalSome
      [] v.type = "list" -> PrefixList
      [] v.type = "tuple" -> PrefixTuple
      [] v.type = "ascii" -> PrefixStringASCII
      [] v.type = "utf8" -> PrefixStringUTF8

\* v.TypePrefix() by the dynamic type of v
TypePrefix(v) ==
    CASE v.type = "int" -> PrefixInt
      [] v.type = "uint" -> PrefixUInt
      [] v.type = "buffer" -> PrefixBuffer
      [] v.type = "bool" -> IF v.b THEN PrefixBoolTrue ELSE PrefixBoolFalse
      [] v.type = "principal" -> PrefixPrincipalStandard
      [] v.type = "contract" -> PrefixPrincipalContract
      [] v.type = "ok" -> PrefixResponseOk
      [] v.type = "err" -> PrefixResponseErr
      [] v.type = "none" -> PrefixOptionalNone
      [] v.type = "some" -> PrefixOptionalSome
      [] v.type = "list" -> PrefixList
      [] v.type = "tuple" -> PrefixTuple
      [] v.type = "ascii" -> PrefixStringASCII
      [] v.type = "utf8" -> PrefixStringUTF8

----------------------------------------------------------------------------
(* lib/clarity_value/types.go: ReprString and TypeSignature of the values  *)
(* a decoded tuple of the driver holds (bool, optional, response, list,    *)
(* tuple).  A Go string is the sequence of its bytes.                      *)

\* s < t on Go strings: the order of their bytes
RECURSIVE BytesLess(_, _)
BytesLess(s, t) ==
    IF t = <<>> THEN FALSE
    ELSE IF s = <<>> THEN TRUE
    ELSE IF Head(s) # Head(t) THEN Head(s) < Head(t)
    ELSE BytesLess(Tail(s), Tail(t))

\* s without its element at index i
RemoveAt(s, i) == SubSeq(s, 1, i - 1) \o SubSeq(s, i + 1, Len(s))

\* "for key := range v" on a Go map with the key set S: the keys in the r-th
\* of their orders (Go leaves the order open)
RECURSIVE PermOf(_, _)
PermOf(ks, r) ==
    IF ks = <<>> THEN <<>>
    ELSE LET i == (r % Len(ks)) + 1
         IN <<ks[i]>> \o PermOf(RemoveAt(ks, i), r \div Len(ks))

RECURSIVE AnySeqOf(_)
AnySeqOf(S) ==
    IF S = {} THEN <<>>
    ELSE LET x == CHOOSE y \in S : TRUE IN <<x>> \o AnySeqOf(S \ {x})

MapRange(S, r) == PermOf(AnySeqOf(S), r)

\* sort.Strings(keys) left unsorted
SortStringsNoSort(keys) == keys

\* sort.Strings(keys): the smallest key first, then the others sorted
RECURSIVE SortStrings(_)
SortStrings(keys) ==
    IF keys = <<>> THEN <<>>
    ELSE LET i == CHOOSE j \in 1..Len(keys) :
                     \A k \in 1..Len(keys) : ~BytesLess(keys[k], keys[j])
         IN <<keys[i]>> \o SortStrings(RemoveAt(keys, i))

\* fmt.Sprintf("%d", n) for n >= 0
RECURSIVE Itoa(_)
Itoa(n) == IF n < 10 THEN <<48 + n>> ELSE Itoa(n \div 10) \o <<48 + (n % 10)>>

\* the string literals of ReprString and TypeSignature, as bytes
TextTrue == <<116, 114, 117, 101>>
TextFalse == <<102, 97, 108, 115, 101>>
TextNone == <<110, 111, 110, 101>>
TextSome == <<40, 115, 111, 109, 101, 32>>
TextOk == <<40, 111, 107, 32>>
TextErr == <<40, 101, 114, 114, 32>>
TextList == <<40, 108, 105, 115, 116>>
TextTuple == <<40, 116, 117, 112, 108, 101>>
TextBool == <<98, 111, 111, 108>>
TextOptionalUnknown == <<40, 111, 112, 116, 105, 111, 110, 97, 108, 32, 85, 110, 107, 110, 111, 119, 110, 84, 121, 112, 101, 41>>
TextOptional == <<40, 111, 112, 116, 105, 111, 110, 97, 108, 32>>
TextResponse == <<40, 114, 101, 115, 112, 111, 110, 115, 101, 32>>
TextUnknownType == <<85, 110, 107, 110, 111, 119, 110, 84, 121, 112, 101>>
TextPrincipal == <<112, 114, 105, 110, 99, 105, 112, 97, 108>>
TextError == <<69, 82, 82, 79, 82, 58, 32>>
TextInvalidVersion == <<105, 110, 118, 97, 108, 105, 100, 32, 118, 101, 114, 115, 105, 111, 110, 32>>

\* fmt.Sprintf("ERROR: %s", err.Error()) or fmt.Sprintf("'%s", addr), addr and
\* err being what EncodeC32Address returned for the principal p; the error of
\* C32CheckEncodePrefixed reads "invalid version %d"
PrincipalRepr(p, addr) ==
    IF addr.err # "" THEN TextError \o TextInvalidVersion \o Itoa(p.Version)
    ELSE <<39>> \o addr.data

\* PrincipalContractValue.ReprString: the same with "." and the name
ContractRepr(p, name, addr) ==
    IF addr.err # "" THEN TextError \o TextInvalidVersion \o Itoa(p.Version)
    ELSE <<39>> \o addr.data \o <<46>> \o name

RECURSIVE ReprString(_, _)
RECURSIVE ListRepr(_, _)
RECURSIVE TupleRepr(_, _, _)

\* the loop of ListValue.ReprString: " " and the element, for each element
ListRepr(items, r) ==
    IF items = <<>> THEN <<>>
    ELSE <<32>> \o ReprString(Head(items).Value, r) \o ListRepr(Tail(items), r)

\* the second loop of TupleValue.ReprString: " (key value)" for each key
TupleRepr(data, keys, r) ==
    IF keys = <<>> THEN <<>>
    ELSE <<32, 40>> \o Head(keys) \o <<32>>
         \o ReprString(data[Head(keys)].Value, r) \o <<41>>
         \o TupleRepr(data, Tail(keys), r)

\* v.ReprString(), every range over a map taken in its r-th order
ReprString(v, r) ==
    CASE v.type = "bool" -> IF v.b THEN TextTrue ELSE TextFalse
      [] v.type = "none" -> TextNone
      [] v.type = "some" -> TextSome \o ReprString(v.Value.Value, r) \o <<41>>
      [] v.type = "ok" -> TextOk \o ReprString(v.Value.Value, r) \o <<41>>
      [] v.type = "err" -> TextErr \o ReprString(v.Value.Value, r) \o <<41>>
      [] v.type = "list" -> TextList \o ListRepr(v.items, r) \o <<41>>
      [] v.type = "tuple" ->
            TextTuple \o TupleRepr(v.data, SortStrings(MapRange(DOMAIN v.data, r)), r)
            \o <<41>>
      [] v.type = "principal" ->
            PrincipalRepr(v.principal,
                          EncodeC32Address(v.principal.Version, v.principal.Hash))
      [] v.type = "contract" ->
            ContractRepr(v.Issuer, v.Name, EncodeC32Address(v.Issuer.Version, v.Issuer.Hash))

RECURSIVE TypeSignature(_, _)
RECURSIVE TupleSig(_, _, _)

\* the second loop of TupleValue.TypeSignature
TupleSig(data, keys, r) ==
    IF keys = <<>> THEN <<>>
    ELSE <<32, 40>> \o Head(keys) \o <<32>>
         \o TypeSignature(data[Head(keys)].Value, r) \o <<41>>
         \o TupleSig(data, Tail(keys), r)

\* v.TypeSignature(), every range over a map taken in its r-th order
TypeSignature(v, r) ==
    CASE v.type = "bool" -> TextBool
      [] v.type = "none" -> TextOptionalUnknown
      [] v.type = "some" -> TextOptional \o TypeSignature(v.Value.Value, r) \o <<41>>
      [] v.type = "ok" ->
            TextResponse \o TypeSignature(v.Value.Value, r) \o <<32>> \o TextUnknownType \o <<41>>
      [] v.type = "err" ->
            TextResponse \o TextUnknownType \o <<32>> \o TypeSignature(v.Value.Value, r) \o <<41>>
      [] v.type = "list" ->
            TextList \o <<32>> \o Itoa(Len(v.items)) \o <<32>>
            \o (IF Len(v.items) > 0 THEN TypeSignature(v.items[1].Value, r) ELSE TextUnknownType)
            \o <<41>>
      [] v.type = "tuple" ->
            TextTuple \o TupleSig(v.data, SortStrings(MapRange(DOMAIN v.data, r)), r)
            \o <<41>>
      [] v.type \in {"principal", "contract"} -> TextPrincipal

\* nothing rendered yet
NoRepr == [repr |-> <<>>, sig |-> <<>>]

----------------------------------------------------------------------------
(* The buffers the value decoder is run on: encodings laid out as the      *)
(* format prescribes (one prefix byte, then the payload of the variant,    *)
(* children back to back), and damaged ones.                               *)

\* a count or length below 2^24 as a big-endian uint32
U32Bytes(n) == <<0, (n \div 65536) % 256, (n \div 256) % 256, n % 256>>

Eight(b) == [i \in 1..8 |-> b]
Last8(b) == [i \in 1..8 |-> IF i = 8 THEN b ELSE 0]
HashA == [i \in 1..20 |-> i]

RECURSIVE Flatten(_)
Flatten(ss) == IF ss = <<>> THEN <<>> ELSE Head(ss) \o Flatten(Tail(ss))

EncInt10 == <<PrefixInt>> \o Eight(0) \o Last8(10)
EncBuffer3 == <<PrefixBuffer>> \o U32Bytes(3) \o <<1, 2, 3>>
EncTrue == <<PrefixBoolTrue>>
EncNone == <<PrefixOptionalNone>>
EncListTrueTrue == <<PrefixList>> \o U32Bytes(2) \o EncTrue \o EncTrue

\* values without children
CVLeaves ==
    { EncTrue, <<PrefixBoolFalse>>, EncNone,
      EncInt10,
      <<PrefixInt>> \o Eight(255) \o Eight(255),
      <<PrefixInt>> \o Last8(1) \o Last8(10),
      <<PrefixInt>> \o Eight(0) \o Eight(255),
      <<PrefixUInt>> \o Eight(0) \o Last8(15),
      <<PrefixUInt>> \o Eight(255) \o Last8(15),
      <<PrefixBuffer>> \o U32Bytes(0),
      EncBuffer3,
      <<PrefixPrincipalStandard, 22>> \o HashA,
      <<PrefixPrincipalStandard, 255>> \o HashA,
      <<PrefixPrincipalStandard, 0>> \o Zeros(20),
      <<PrefixPrincipalStandard, 31>> \o HashA,
      <<PrefixPrincipalStandard, 32>> \o HashA,
      <<PrefixPrincipalContract, 22>> \o HashA \o <<3, 97, 98, 99>>,
      <<PrefixPrincipalContract, 32>> \o HashA \o <<3, 97, 98, 99>>,
      <<PrefixPrincipalContract, 255>> \o Zeros(20) \o <<1, 97>>,
      <<PrefixStringASCII>> \o U32Bytes(2) \o <<104, 105>>,
      <<PrefixStringUTF8>> \o U32Bytes(3) \o <<97, 195, 169>>,
      <<PrefixStringUTF8>> \o U32Bytes(2) \o <<255, 97>>,
      <<PrefixStringUTF8>> \o U32Bytes(0) }

\* length-prefixed tuple keys: "a", "b", "k-1"
CVKeys == { <<1, 97>>, <<1, 98>>, <<3, 107, 45, 49>> }

Wraps(S) ==
    { <<p>> \o e : p \in {PrefixResponseOk, PrefixResponseErr, PrefixOptionalSome},
                  e \in S }

Lists(S, n) ==
    UNION { { <<PrefixList>> \o U32Bytes(k) \o Flatten(items) : items \in [1..k -> S] }
            : k \in 0..n }

Tuples(K, S, n) ==
    UNION { { <<PrefixTuple>> \o U32Bytes(k)
                 \o Flatten([i \in 1..k |-> keys[i] \o vals[i]])
              : keys \in [1..k -> K], vals \in [1..k -> S] }
            : k \in 0..n }

\* the opening of a value with one child: some, ok, err, a list of one
\* element, a tuple of one pair
CVWrappers ==
    { <<PrefixOptionalSome>>, <<PrefixResponseOk>>, <<PrefixResponseErr>>,
      <<PrefixList>> \o U32Bytes(1), <<PrefixTuple>> \o U32Bytes(1) \o <<1, 97>> }

\* k wrappers w around a leaf
RECURSIVE Nest(_, _, _)
Nest(k, w, leaf) == IF k = 0 THEN leaf ELSE w \o Nest(k - 1, w, leaf)

CVLevel1 ==
    Wraps(CVLeaves)
    \cup Lists({EncTrue, <<PrefixBoolFalse>>, EncNone, EncInt10, EncBuffer3}, MaxListLen)
    \cup Tuples(CVKeys, {EncTrue, EncNone}, MaxListLen)

CVMid ==
    { <<PrefixOptionalSome>> \o EncTrue,
      <<PrefixList>> \o U32Bytes(1) \o EncTrue,
      <<PrefixTuple>> \o U32Bytes(1) \o <<1, 97>> \o EncTrue }

CVLevel2 ==
    Wraps(CVMid)
    \cup Lists({EncTrue} \cup CVMid, MaxListLen)
    \cup Tuples({<<1, 97>>, <<1, 98>>}, {EncNone} \cup CVMid, MaxListLen)

CVNests ==
    { Nest(k, w, leaf) : k \in 0..MaxNest, w \in CVWrappers,
                         leaf \in {EncTrue, EncListTrueTrue} }

\* complete encodings under the layout of the format
CVWellFormed == CVLeaves \cup CVLevel1 \cup CVLevel2 \cup CVNests

\* length fields above MaxValueSize, and MaxValueSize itself
CVOversize == { <<0, 16, 0, 1>>, <<0, 17, 0, 0>>, <<1, 0, 0, 0>>,
                <<128, 0, 0, 0>>, <<255, 255, 255, 255>> }
CVExactLimit == <<0, 16, 0, 0>>

CVSizedPrefixes ==
    { PrefixBuffer, PrefixList, PrefixTuple, PrefixStringASCII, PrefixStringUTF8 }

\* a value that breaks a rule of the decoder, with the number of its bytes
\* the decoder has consumed when it meets the broken rule
Bad(body, stop) == [body |-> body, stop |-> stop]

\* a length field above MaxValueSize: the rule is met after the field
CVOversized ==
    { Bad(<<p>> \o l \o t, 5) : p \in CVSizedPrefixes, l \in CVOversize,
                                t \in {<<>>, <<PrefixBoolTrue, PrefixBoolTrue>>} }

CVBadLeaves ==
    { Bad(<<15>>, 1), Bad(<<16>>, 1), Bad(<<128>>, 1), Bad(<<255>>, 1),
      Bad(<<PrefixPrincipalContract, 22>> \o HashA \o <<1, 49>>, 24),
      Bad(<<PrefixPrincipalContract, 22>> \o HashA \o <<0>>, 23),
      Bad(<<PrefixPrincipalContract, 22>> \o HashA \o <<129>>, 23) }
    \cup CVOversized

\* a damaged value inside a sound one
CVDamaged ==
    CVBadLeaves
    \cup { Bad(<<p>> \o b.body, 1 + b.stop)
           : p \in {PrefixResponseOk, PrefixResponseErr, PrefixOptionalSome},
             b \in CVBadLeaves }
    \cup { Bad(<<PrefixList>> \o U32Bytes(2) \o EncTrue \o b.body, 6 + b.stop)
           : b \in CVBadLeaves }
    \cup { Bad(<<PrefixTuple>> \o U32Bytes(2) \o <<1, 97>> \o EncTrue \o <<1, 98>> \o b.body,
               10 + b.stop)
           : b \in CVBadLeaves }
    \cup { Bad(<<PrefixTuple>> \o U32Bytes(2) \o <<1, 97>> \o EncTrue \o k.body \o EncTrue,
               8 + k.stop)
           : k \in { Bad(<<1, 49>>, 2), Bad(<<0>>, 1), Bad(<<129>>, 1),
                     Bad(<<2, 97, 32>>, 3) } }

\* a length field of exactly MaxValueSize in front of fewer bytes
CVAtLimit ==
    { <<p>> \o CVExactLimit \o t : p \in CVSizedPrefixes,
                                   t \in {<<>>, <<PrefixBoolTrue, PrefixBoolTrue>>} }

\* every proper prefix of a complete encoding
CVTruncated == UNION { { SubSeq(e, 1, k) : k \in 0..(Len(e) - 1) } : e \in CVWellFormed }

\* bytes the caller leaves in the buffer after the value
CVTrailing == { <<>>, <<PrefixBoolTrue>>, <<255, 0>> }

\* the bytes before the value: the prefix of "optional some"
CVJunk(n) == [i \in 1..n |-> PrefixOptionalSome]

----------------------------------------------------------------------------
(* The value decoder's driver: a caller puts a buffer behind a reader at   *)
(* offset cvstart and calls DecodeClarityValue with or without withBytes.  *)

\* what a caller puts in the buffer: the value's bytes, whether they are a
\* complete encoding, where a broken rule is met (-1: none, or the end of
\* the buffer), and the bytes after them
CVCases ==
    { [body |-> b, wf |-> TRUE, stop |-> -1, trail |-> t]
      : b \in CVWellFormed, t \in CVTrailing }
    \cup { [body |-> b.body, wf |-> FALSE, stop |-> b.stop, trail |-> t]
           : b \in CVDamaged, t \in CVTrailing }
    \cup { [body |-> b, wf |-> FALSE, stop |-> -1, trail |-> <<>>]
           : b \in (CVTruncated \ CVWellFormed) \cup CVAtLimit }

CVInit ==
    /\ cvpc = "ready"
    /\ \E c \in CVCases :
       \E s \in 0..MaxStart :
          /\ cvinput = CVJunk(s) \o c.body \o c.trail
          /\ cvstart = s
          /\ cvend = s + Len(c.body)
          /\ cvwf = c.wf
          /\ cvstop = c.stop
    /\ cvwith = FALSE
    /\ cvres = DecodeErr("", cvstart, <<>>)
    /\ cvrepr = NoRepr

CVDecodeWithBytes ==
    /\ cvpc = "ready"
    /\ cvwith' = TRUE
    /\ cvres' = DecodeClarityValue(cvinput, cvstart, TRUE)
    /\ cvpc' = "done"
    /\ UNCHANGED <<cvinput, cvstart, cvend, cvwf, cvstop, cvrepr>>
    /\ UNCHANGED notCVvars

CVDecodePlain ==
    /\ cvpc = "ready"
    /\ cvwith' = FALSE
    /\ cvres' = DecodeClarityValue(cvinput, cvstart, FALSE)
    /\ cvpc' = "done"
    /\ UNCHANGED <<cvinput, cvstart, cvend, cvwf, cvstop, cvrepr>>
    /\ UNCHANGED notCVvars

\* the caller renders a decoded tuple: TupleValue.ReprString() and
\* TupleValue.TypeSignature(), each range over a map in one of its orders
CVShowTuple ==
    /\ cvpc = "done"
    /\ cvres.err = ""
    /\ cvres.cv.Value.type = "tuple"
    /\ \E r \in 0..(RangeOrders - 1) :
          cvrepr' = [repr |-> ReprString(cvres.cv.Value, r),
                     sig |-> TypeSignature(cvres.cv.Value, r)]
    /\ cvpc' = "shown"
    /\ UNCHANGED <<cvinput, cvstart, cvend, cvwf, cvstop, cvwith, cvres>>
    /\ UNCHANGED notCVvars

\* the caller renders a decoded principal: ReprString() and TypeSignature()
\* of a PrincipalStandardValue or a PrincipalContractValue
CVShowPrincipal ==
    /\ cvpc = "done"
    /\ cvres.err = ""
    /\ cvres.cv.Value.type \in {"principal", "contract"}
    /\ cvrepr' = [repr |-> ReprString(cvres.cv.Value, 0),
                  sig |-> TypeSignature(cvres.cv.Value, 0)]
    /\ cvpc' = "pshown"
    /\ UNCHANGED <<cvinput, cvstart, cvend, cvwf, cvstop, cvwith, cvres>>
    /\ UNCHANGED notCVvars

CVNext == CVDecodeWithBytes \/ CVDecodePlain \/ CVShowTuple \/ CVShowPrincipal

----------------------------------------------------------------------------
(* The name driver: a caller validates a string, or puts it behind a       *)
(* length byte in a reader and decodes it, as a ClarityName or as a        *)
(* ContractName.                                                           *)

\* the characters short names are drawn from: a Z 0 - _ ! < = space \n 255
NMChars == {97, 90, 48, 45, 95, 33, 60, 61, 32, 10, 255}

\* n times the character c
Rep(c, n) == [i \in 1..n |-> c]

\* lengths around the limits 40 and 128 of the two kinds of name
NMLongLens == {39, 40, 41, 127, 128, 129}

\* "__transient"
NMTransient == <<95, 95, 116, 114, 97, 110, 115, 105, 101, 110, 116>>

\* long names: a letter followed by letters, hyphens or question marks, the
\* same with a space at the end, and hyphens only
NMLong ==
    UNION { { <<97>> \o Rep(c, n - 1) : c \in {97, 45, 63} }
            \cup { <<97>> \o Rep(97, n - 2) \o <<32>>, Rep(45, n) }
            : n \in NMLongLens }

NMStrings ==
    SeqsUpTo(NMChars, MaxNameLen) \cup NMLong
    \cup { NMTransient, SubSeq(NMTransient, 1, 10), NMTransient \o <<116>>,
           SubSeq(NMTransient, 2, 11), <<62, 61>>, <<62, 62>>, <<43>>, <<47>>, <<42>>,
           <<62>>, <<61, 61>> }

NMInit ==
    /\ nmpc = "ready"
    /\ nminput \in NMStrings
    /\ nmlen \in {Len(nminput) - 1, Len(nminput), Len(nminput) + 1} \cap 0..255
    /\ nmres = [name |-> <<>>, err |-> "", pos |-> 0]

NMValidateContractName ==
    /\ nmpc = "ready"
    /\ LET r == ValidateContractName(nminput)
       IN nmres' = [name |-> r.name, err |-> r.err, pos |-> 0]
    /\ nmpc' = "ValidateContractName"
    /\ UNCHANGED <<nminput, nmlen>>
    /\ UNCHANGED notNMvars

NMDecodeContractName ==
    /\ nmpc = "ready"
    /\ nmres' = DecodeContractName(<<nmlen>> \o nminput, 0)
    /\ nmpc' = "DecodeContractName"
    /\ UNCHANGED <<nminput, nmlen>>
    /\ UNCHANGED notNMvars

NMValidateClarityName ==
    /\ nmpc = "ready"
    /\ LET r == ValidateClarityName(nminput)
       IN nmres' = [name |-> r.name, err |-> r.err, pos |-> 0]
    /\ nmpc' = "ValidateClarityName"
    /\ UNCHANGED <<nminput, nmlen>>
    /\ UNCHANGED notNMvars

NMDecodeClarityName ==
    /\ nmpc = "ready"
    /\ LET r == DecodeClarityName(<<nmlen>> \o nminput, 0)
       IN nmres' = [name |-> r.name, err |-> r.err, pos |-> r.pos]
    /\ nmpc' = "DecodeClarityName"
    /\ UNCHANGED <<nminput, nmlen>>
    /\ UNCHANGED notNMvars

NMNext ==
    \/ NMValidateContractName \/ NMDecodeContractName
    \/ NMValidateClarityName \/ NMDecodeClarityName

\* the name functions at rest
NMIdle ==
    /\ nmpc = "idle" /\ nminput = <<>> /\ nmlen = 0
    /\ nmres = [name |-> <<>>, err |-> "", pos |-> 0]

----------------------------------------------------------------------------
(* Package initialisation of lib/address: the two init() functions write   *)
(* the lookup tables one element at a time; goroutines call the codecs.    *)

Goroutine == 1..Goroutines

\* the calls a goroutine makes, and the characters and digits it passes
TBCalls == {"DecodeBase58", "DecodeC32Bytes", "EncodeBase58", "EncodeC32"}
TBProbes == {48, 49, 79, 108, 122, 127}

\* a package variable [128]int before init(): every element zero
ZeroTable == [c \in 0..127 |-> 0]

GorIdle == [pc |-> "idle", call |-> "", c |-> 0, val |-> 0]

\* a call that ignores the order of initialisation
NoInitBarrier == TRUE

\* the Go runtime runs every init() of a package, one after the other in a
\* single goroutine, before main starts and so before any caller's goroutine
PackageInitialised == tbtodo = <<>>

TBInit ==
    /\ tbtodo \in {<<"base58", "c32">>, <<"c32", "base58">>}
    /\ tbpc = "fill"
    /\ tbi = 0
    /\ digitsB58 = ZeroTable
    /\ charMapC32 = ZeroTable
    /\ gor = [g \in Goroutine |-> GorIdle]
    /\ tbracy = FALSE

\* the package initialised, no call in progress
TBIdle ==
    /\ tbtodo = <<>>
    /\ tbpc = "done"
    /\ tbi = 0
    /\ digitsB58 = base58Digits
    /\ charMapC32 = c32CharMap
    /\ gor = [g \in Goroutine |-> GorIdle]
    /\ tbracy = FALSE

\* a write to a table while some goroutine is inside a call
WriteDuringCall == \E g \in Goroutine : gor[g].pc # "idle"

\* the end of one init(): the next one starts, or initialisation is over
InitReturns ==
    /\ tbtodo' = Tail(tbtodo)
    /\ tbpc' = IF Tail(tbtodo) = <<>> THEN "done" ELSE "fill"
    /\ tbi' = 0

\* base58.go: for i := 0; i < len(base58Digits); i++ { base58Digits[i] = -1 }
Base58InitFill ==
    /\ tbtodo # <<>> /\ Head(tbtodo) = "base58" /\ tbpc = "fill"
    /\ digitsB58' = [digitsB58 EXCEPT ![tbi] = -1]
    /\ IF tbi + 1 < 128
       THEN tbi' = tbi + 1 /\ UNCHANGED <<tbpc, tbtodo>>
       ELSE tbi' = 0 /\ tbpc' = "set" /\ UNCHANGED tbtodo
    /\ tbracy' = (tbracy \/ WriteDuringCall)
    /\ UNCHANGED <<charMapC32, gor>>
    /\ UNCHANGED notTBvars

\* base58.go: for i := 0; i < len(base58Chars); i++ { base58Digits[base58Chars[i]] = i }
Base58InitSet ==
    /\ tbtodo # <<>> /\ Head(tbtodo) = "base58" /\ tbpc = "set"
    /\ digitsB58' = [digitsB58 EXCEPT ![base58Chars[tbi + 1]] = tbi]
    /\ IF tbi + 1 < Len(base58Chars)
       THEN tbi' = tbi + 1 /\ UNCHANGED <<tbpc, tbtodo>>
       ELSE InitReturns
    /\ tbracy' = (tbracy \/ WriteDuringCall)
    /\ UNCHANGED <<charMapC32, gor>>
    /\ UNCHANGED notTBvars

\* c32.go: for i := 0; i < len(c32CharMap); i++ { c32CharMap[i] = -1 }
C32InitFill ==
    /\ tbtodo # <<>> /\ Head(tbtodo) = "c32" /\ tbpc = "fill"
    /\ charMapC32' = [charMapC32 EXCEPT ![tbi] = -1]
    /\ IF tbi + 1 < 128
       THEN tbi' = tbi + 1 /\ UNCHANGED <<tbpc, tbtodo>>
       ELSE tbi' = 0 /\ tbpc' = "set" /\ UNCHANGED tbtodo
    /\ tbracy' = (tbracy \/ WriteDuringCall)
    /\ UNCHANGED <<digitsB58, gor>>
    /\ UNCHANGED notTBvars

\* c32.go: for i, c := range c32Chars: c32CharMap[c] = i and, for a letter,
\* c32CharMap[c+32] = i
C32InitSet ==
    /\ tbtodo # <<>> /\ Head(tbtodo) = "c32" /\ tbpc = "set"
    /\ LET c == c32Chars[tbi + 1]
       IN charMapC32' =
            IF c >= 65 /\ c <= 90
            THEN [charMapC32 EXCEPT ![c] = tbi, ![c + 32] = tbi]
            ELSE [charMapC32 EXCEPT ![c] = tbi]
    /\ IF tbi + 1 < Len(c32Chars)
       THEN tbi' = tbi + 1 /\ UNCHANGED <<tbpc, tbtodo>>
       ELSE tbi' = 0 /\ tbpc' = "special" /\ UNCHANGED tbtodo
    /\ tbracy' = (tbracy \/ WriteDuringCall)
    /\ UNCHANGED <<digitsB58, gor>>
    /\ UNCHANGED notTBvars

\* specialChars: {'O', '0'}, {'L', '1'}, {'I', '1'}
specialChars == << <<79, 48>>, <<76, 49>>, <<73, 49>> >>

\* c32.go: for _, pair := range specialChars: val := c32CharMap[pair[1]];
\* c32CharMap[pair[0]] = val; c32CharMap[pair[0]+32] = val
C32InitSpecial ==
    /\ tbtodo # <<>> /\ Head(tbtodo) = "c32" /\ tbpc = "special"
    /\ LET pair == specialChars[tbi + 1]
           val == charMapC32[pair[2]]
       IN charMapC32' = [charMapC32 EXCEPT ![pair[1]] = val, ![pair[1] + 32] = val]
    /\ IF tbi + 1 < Len(specialChars)
       THEN tbi' = tbi + 1 /\ UNCHANGED <<tbpc, tbtodo>>
       ELSE InitReturns
    /\ tbracy' = (tbracy \/ WriteDuringCall)
    /\ UNCHANGED <<digitsB58, gor>>
    /\ UNCHANGED notTBvars

\* a goroutine enters a codec function with a character (a decoder) or a
\* digit (an encoder)
GorCall ==
    /\ PackageInitialised
    /\ \E g \in Goroutine, f \in TBCalls, c \in TBProbes :
          /\ gor[g].pc = "idle"
          /\ gor' = [gor EXCEPT ![g] = [pc |-> "called", call |-> f, c |-> c, val |-> 0]]
    /\ UNCHANGED <<tbtodo, tbpc, tbi, digitsB58, charMapC32, tbracy>>
    /\ UNCHANGED notTBvars

\* base58.go:53 digit := base58Digits[c]; c32.go:156-159 c32CharMap[input[i]];
\* the encoders index the constants base58Chars and c32Chars and no table
GorRead ==
    /\ \E g \in Goroutine :
          /\ gor[g].pc = "called"
          /\ gor' = [gor EXCEPT ![g].pc = "returned",
                                ![g].val =
                                    CASE gor[g].call = "DecodeBase58" -> digitsB58[gor[g].c]
                                      [] gor[g].call = "DecodeC32Bytes" -> charMapC32[gor[g].c]
                                      [] gor[g].call = "EncodeBase58" ->
                                            base58Chars[(gor[g].c % 58) + 1]
                                      [] gor[g].call = "EncodeC32" ->
                                            c32Chars[(gor[g].c % 32) + 1]]
          /\ tbracy' = (tbracy \/ (tbpc # "done" /\ gor[g].call \in {"DecodeBase58", "DecodeC32Bytes"}))
    /\ UNCHANGED <<tbtodo, tbpc, tbi, digitsB58, charMapC32>>
    /\ UNCHANGED notTBvars

\* the call returns and the goroutine is free for the next one
GorReturn ==
    /\ \E g \in Goroutine :
          /\ gor[g].pc = "returned"
          /\ gor' = [gor EXCEPT ![g] = GorIdle]
    /\ UNCHANGED <<tbtodo, tbpc, tbi, digitsB58, charMapC32, tbracy>>
    /\ UNCHANGED notTBvars

TBNext ==
    \/ Base58InitFill
    \/ Base58InitSet
    \/ C32InitFill
    \/ C32InitSet
    \/ C32InitSpecial
    \/ GorCall
    \/ GorRead
    \/ GorReturn

----------------------------------------------------------------------------
(* lib/post_condition/post_condition.go, with DecodeStacksAddress of       *)
(* package address.  A reader is the buffer and an offset; a uint64 is     *)
(* its 8 big-endian bytes.                                                  *)

AssetInfoSTX == 0
AssetInfoFungible == 1
AssetInfoNonfungible == 2

PrincipalOrigin == 1
PrincipalStandard == 2
PrincipalContract == 3

\* FCSentEq .. FCSentLe, and NFCSent, NFCNotSent
FungibleConditionCodes == {1, 2, 3, 4, 5}
NonfungibleConditionCodes == {16, 17}

ZeroStacksAddress == [Version |-> 0, Hash160 |-> Zeros(20)]
ZeroPrincipal == [Type |-> 0, Address |-> ZeroStacksAddress, ContractName |-> <<>>]
ZeroAssetInfo == [Address |-> ZeroStacksAddress, ContractName |-> <<>>, AssetName |-> <<>>]
ZeroPostCondition ==
    [Type |-> 0, Principal |-> ZeroPrincipal, Asset |-> ZeroAssetInfo,
     ConditionCode |-> 0, Amount |-> Zeros(8), AssetValue |-> ZeroClarityValue]

\* DecodeStacksAddress(r): the version byte and 20 bytes
DecodeStacksAddress(input, pos) ==
    LET v == ReadByte(input, pos)
        h == ReadFull(input, v.pos, 20)
    IN IF v.err # ""
       THEN [addr |-> ZeroStacksAddress, err |-> "failed to read address version", pos |-> v.pos]
       ELSE IF h.err # ""
       THEN [addr |-> ZeroStacksAddress, err |-> "failed to read address hash160", pos |-> h.pos]
       ELSE [addr |-> [Version |-> v.b, Hash160 |-> h.data], err |-> "", pos |-> h.pos]

PrincipalFail(e, pos) == [principal |-> ZeroPrincipal, err |-> e, pos |-> pos]

\* the case PrincipalContract of decodePrincipal
decodePrincipalContract(input, t, addr) ==
    IF addr.err # "" THEN PrincipalFail("decode contract address", addr.pos)
    ELSE LET name == DecodeClarityName(input, addr.pos)
         IN IF name.err # "" THEN PrincipalFail("decode contract name", name.pos)
            ELSE [principal |-> [Type |-> t, Address |-> addr.addr, ContractName |-> name.name],
                  err |-> "", pos |-> name.pos]

\* the case PrincipalStandard of decodePrincipal
decodePrincipalStandard(t, addr) ==
    IF addr.err # "" THEN PrincipalFail("decode standard address", addr.pos)
    ELSE [principal |-> [Type |-> t, Address |-> addr.addr, ContractName |-> <<>>],
          err |-> "", pos |-> addr.pos]

decodePrincipal(input, pos) ==
    LET t == ReadByte(input, pos)
    IN CASE t.err # "" -> PrincipalFail("read principal type", t.pos)
         [] t.b = PrincipalOrigin ->
               [principal |-> [Type |-> t.b, Address |-> ZeroStacksAddress,
                               ContractName |-> <<>>],
                err |-> "", pos |-> t.pos]
         [] t.b = PrincipalStandard ->
               decodePrincipalStandard(t.b, DecodeStacksAddress(input, t.pos))
         [] t.b = PrincipalContract ->
               decodePrincipalContract(input, t.b, DecodeStacksAddress(input, t.pos))
         [] OTHER -> PrincipalFail("unknown principal type", t.pos)

AssetFail(e, pos) == [asset |-> ZeroAssetInfo, err |-> e, pos |-> pos]

\* decodeAssetInfo from the contract name on
decodeAssetNames(input, addr, contractName) ==
    IF contractName.err # "" THEN AssetFail("decode contract name", contractName.pos)
    ELSE LET assetName == DecodeClarityName(input, contractName.pos)
         IN IF assetName.err # "" THEN AssetFail("decode asset name", assetName.pos)
            ELSE [asset |-> [Address |-> addr.addr, ContractName |-> contractName.name,
                             AssetName |-> assetName.name],
                  err |-> "", pos |-> assetName.pos]

decodeAssetInfo(input, pos) ==
    LET addr == DecodeStacksAddress(input, pos)
    IN IF addr.err # "" THEN AssetFail("decode address", addr.pos)
       ELSE decodeAssetNames(input, addr, DecodeClarityName(input, addr.pos))

\* what the three decode...Data functions return: the fields they set
DataFail(e, pos) ==
    [asset |-> ZeroAssetInfo, val |-> ZeroClarityValue, code |-> 0, amount |-> Zeros(8),
     err |-> e, pos |-> pos]
DataOk(asset, val, code, amount, pos) ==
    [asset |-> asset, val |-> val, code |-> code, amount |-> amount, err |-> "", pos |-> pos]

\* the condition code, validateFungibleConditionCode and the amount, as
\* decodeSTXData and decodeFungibleData read them
CodeAndAmount(input, pos, asset) ==
    LET c == ReadByte(input, pos)
        a == ReadFull(input, c.pos, 8)
    IN IF c.err # "" THEN DataFail("read condition code", c.pos)
       ELSE IF c.b \notin FungibleConditionCodes
       THEN DataFail("invalid fungible condition code", c.pos)
       ELSE IF a.err # "" THEN DataFail("read amount", a.pos)
       ELSE DataOk(asset, ZeroClarityValue, c.b, a.data, a.pos)

decodeSTXData(input, pos) == CodeAndAmount(input, pos, ZeroAssetInfo)

decodeFungibleData(input, pos) ==
    LET asset == decodeAssetInfo(input, pos)
    IN IF asset.err # "" THEN DataFail(asset.err, asset.pos)
       ELSE CodeAndAmount(input, asset.pos, asset.asset)

\* extractSerializedBytes: seek to startPos, read endPos - startPos bytes,
\* seek to endPos
extractSerializedBytes(input, startPos, endPos) ==
    LET d == ReadFull(input, startPos, endPos - startPos)
    IN IF d.err # "" THEN [data |-> <<>>, err |-> "read value bytes", pos |-> d.pos]
       ELSE [data |-> d.data, err |-> "", pos |-> endPos]

\* decodeNonfungibleData from the return of DecodeClarityValue on
decodeNonfungibleValue(input, asset, startPos, val) ==
    IF val.err # "" THEN DataFail("decode clarity value", val.pos)
    ELSE LET bytes == extractSerializedBytes(input, startPos, val.pos)
             c == ReadByte(input, bytes.pos)
         IN IF bytes.err # "" THEN DataFail(bytes.err, bytes.pos)
            ELSE IF c.err # "" THEN DataFail("read condition code", c.pos)
            ELSE IF c.b \notin NonfungibleConditionCodes
            THEN DataFail("invalid non-fungible condition code", c.pos)
            ELSE DataOk(asset.asset,
                        [SerializedBytes |-> bytes.data, hasBytes |-> TRUE,
                         Value |-> val.cv.Value],
                        c.b, Zeros(8), c.pos)

decodeNonfungibleData(input, pos) ==
    LET asset == decodeAssetInfo(input, pos)
    IN IF asset.err # "" THEN DataFail(asset.err, asset.pos)
       ELSE decodeNonfungibleValue(input, asset, asset.pos,
                                   DecodeClarityValue(input, asset.pos, FALSE))

PostConditionFail(e, pos) == [pc |-> ZeroPostCondition, err |-> e, pos |-> pos]

\* the returns of the switch of DecodePostCondition
PostConditionOf(assetType, principal, d) ==
    IF d.err # "" THEN PostConditionFail(d.err, d.pos)
    ELSE [pc |-> [Type |-> assetType, Principal |-> principal.principal, Asset |-> d.asset,
                  ConditionCode |-> d.code, Amount |-> d.amount, AssetValue |-> d.val],
          err |-> "", pos |-> d.pos]

\* DecodePostCondition once the asset type and the principal were read
PostConditionBody(input, t, principal) ==
    CASE t.err # "" -> PostConditionFail("read asset type", t.pos)
      [] principal.err # "" -> PostConditionFail(principal.err, principal.pos)
      [] t.b = AssetInfoSTX ->
            PostConditionOf(t.b, principal, decodeSTXData(input, principal.pos))
      [] t.b = AssetInfoFungible ->
            PostConditionOf(t.b, principal, decodeFungibleData(input, principal.pos))
      [] t.b = AssetInfoNonfungible ->
            PostConditionOf(t.b, principal, decodeNonfungibleData(input, principal.pos))
      [] OTHER -> PostConditionFail("unknown asset type", principal.pos)

\* a decoder that reads nothing when the asset type is unknown and reports
\* no error: an empty post condition
DecodePostConditionSkipsUnknown(input, pos) ==
    LET t == ReadByte(input, pos)
    IN IF t.err = "" /\ t.b > AssetInfoNonfungible
       THEN [pc |-> ZeroPostCondition, err |-> "", pos |-> pos]
       ELSE PostConditionBody(input, t, decodePrincipal(input, t.pos))

\* DecodePostCondition(r) for a reader at offset pos
DecodePostCondition(input, pos) ==
    PostConditionBody(input, ReadByte(input, pos), decodePrincipal(input, ReadByte(input, pos).pos))

----------------------------------------------------------------------------
(* DecodeTxPostConditions, one turn of its loop per step.  DecodePostCondition *)
(* is a function of data[5:] and the reader's offset; the call tabulates it in *)
(* txdec and each turn of the loop looks its return up there.                 *)

\* encodings of single post conditions: STX of the origin, STX of a standard
\* principal, a fungible asset, a non-fungible asset of a contract principal
\* whose value is true
TXStx == <<AssetInfoSTX, PrincipalOrigin, 1>> \o Last8(5)
TXStxStandard == <<AssetInfoSTX, PrincipalStandard, 22>> \o HashA \o <<3>> \o Last8(1)
TXFungible ==
    <<AssetInfoFungible, PrincipalOrigin, 22>> \o HashA \o <<1, 97, 1, 98, 5>> \o Eight(255)
TXNonfungible ==
    <<AssetInfoNonfungible, PrincipalContract, 22>> \o HashA \o <<1, 99>>
    \o <<26>> \o HashA \o <<1, 97, 1, 98>> \o EncTrue \o <<16>>

TXSound == {TXStx, TXStxStandard, TXFungible, TXNonfungible}

\* encodings DecodePostCondition refuses: an unknown asset type, an unknown
\* principal type, a condition code of the other family, a bad name
TXBroken ==
    { <<3, PrincipalOrigin, 1>> \o Last8(5),
      <<AssetInfoSTX, 4, 1>> \o Last8(5),
      <<AssetInfoSTX, PrincipalOrigin, 16>> \o Last8(5),
      <<AssetInfoNonfungible, PrincipalOrigin, 22>> \o HashA \o <<1, 97, 1, 98>> \o EncTrue \o <<1>>,
      <<AssetInfoFungible, PrincipalOrigin, 22>> \o HashA \o <<1, 49, 1, 98, 5>> \o Eight(0) }

\* the mode byte and the 4 bytes of a count that nothing reads
TXHeaders == { <<1>> \o U32Bytes(0), <<2>> \o U32Bytes(7) }

\* up to MaxPostConditions encodings one after the other: the loop stops at
\* the first one that is refused, so a refused one comes last
TXSoundLists(n) == UNION { { Flatten(items) : items \in [1..k -> TXSound] } : k \in 0..n }
TXLists ==
    TXSoundLists(MaxPostConditions)
    \cup { l \o x : l \in TXSoundLists(MaxPostConditions - 1), x \in TXBroken }

\* what a caller hands over: a header and a list, or any beginning of them
TXInputs ==
    UNION { { SubSeq(h \o l, 1, k) : k \in 0..Len(h \o l) } : h \in TXHeaders, l \in TXLists }

\* (*PostConditionsResponse, error)
TXResponse(mode, conds) == [isNil |-> FALSE, mode |-> mode, conds |-> conds, err |-> ""]
TXError(e) == [isNil |-> TRUE, mode |-> 0, conds |-> <<>>, err |-> e]

\* before the call
TXInit ==
    /\ txpc = "ready"
    /\ txdata = <<>>
    /\ txpos = 0
    /\ txconds = <<>>
    /\ txends = <<>>
    /\ txret = TXError("")
    /\ txdec = <<>>

\* no call in progress
TXIdle ==
    /\ txpc = "idle"
    /\ txdata = <<>>
    /\ txpos = 0
    /\ txconds = <<>>
    /\ txends = <<>>
    /\ txret = TXError("")
    /\ txdec = <<>>

\* the call with its argument: the length checks, resp, and the reader over
\* data[5:]
TXEnter ==
    /\ txpc = "ready"
    /\ \E data \in TXInputs :
          /\ txdata' = data
          /\ txdec' = [p \in 1..(Len(data) - 5) |->
                          DecodePostCondition(SliceFrom(data, 5), p - 1)]
          /\ IF Len(data) < 1
             THEN /\ txpc' = "returned"
                  /\ txret' = TXError("insufficient data for post conditions")
             ELSE IF Len(data) > 4
             THEN txpc' = "loop" /\ UNCHANGED txret
             ELSE txpc' = "returned" /\ txret' = TXResponse(data[1], <<>>)
    /\ UNCHANGED <<txpos, txconds, txends>>
    /\ UNCHANGED notTXvars

\* one turn of "for reader.Len() > 0": the error is returned with a nil
\* response, or the post condition is appended
TXLoop ==
    /\ txpc = "loop"
    /\ Len(txdata) - 5 - txpos > 0
    /\ Len(txconds) <= Len(txdata)
    /\ LET p == txdec[txpos + 1]
       IN IF p.err # ""
          THEN /\ txpc' = "returned"
               /\ txret' = TXError("error deserializing post condition")
               /\ txpos' = p.pos
               /\ UNCHANGED <<txconds, txends>>
          ELSE /\ txconds' = Append(txconds, p.pc)
               /\ txends' = Append(txends, p.pos)
               /\ txpos' = p.pos
               /\ UNCHANGED <<txpc, txret>>
    /\ UNCHANGED <<txdata, txdec>>
    /\ UNCHANGED notTXvars

\* the loop ends with the reader empty: return resp, nil
TXReturn ==
    /\ txpc = "loop"
    /\ Len(txdata) - 5 - txpos <= 0
    /\ txpc' = "returned"
    /\ txret' = TXResponse(txdata[1], txconds)
    /\ UNCHANGED <<txdata, txpos, txconds, txends, txdec>>
    /\ UNCHANGED notTXvars

TXNext == TXEnter \/ TXLoop \/ TXReturn

----------------------------------------------------------------------------
(* The specifications: one per family of functions. *)

\* the value decoder at rest
CVIdle ==
    /\ cvpc = "idle" /\ cvinput = <<>> /\ cvstart = 0 /\ cvend = 0 /\ cvwf = FALSE
    /\ cvstop = -1
    /\ cvwith = FALSE /\ cvres = DecodeErr("", 0, <<>>)
    /\ cvrepr = NoRepr

InitB58 == B58Init /\ C32Idle /\ CVIdle /\ NMIdle /\ TBIdle /\ TXIdle
SpecB58 == InitB58 /\ [][B58Next]_vars

InitC32 == C32Init /\ B58Idle /\ CVIdle /\ NMIdle /\ TBIdle /\ TXIdle
SpecC32 == InitC32 /\ [][C32Next]_vars

InitCV == CVInit /\ B58Idle /\ C32Idle /\ NMIdle /\ TBIdle /\ TXIdle
SpecCV == InitCV /\ [][CVNext]_vars

InitNM == NMInit /\ B58Idle /\ C32Idle /\ CVIdle /\ TBIdle /\ TXIdle
SpecNM == InitNM /\ [][NMNext]_vars

InitTB == TBInit /\ B58Idle /\ C32Idle /\ CVIdle /\ NMIdle /\ TXIdle
SpecTB == InitTB /\ [][TBNext]_vars

\* DecodeTxPostConditions runs on one goroutine: once it was called, a loop
\* that can take a turn or end does so
InitTX == TXInit /\ B58Idle /\ C32Idle /\ CVIdle /\ NMIdle /\ TBIdle
SpecTX == InitTX /\ [][TXNext]_vars /\ WF_vars(TXLoop \/ TXReturn)

----------------------------------------------------------------------------
(* Claims about the address codecs. *)

\* C1: for every byte sequence b, DecodeBase58(EncodeBase58(b)) succeeds and
\* returns exactly b, and the encoding starts with exactly as many '1'
\* characters as b starts with zero bytes.
C1_Base58RoundTrip ==
    /\ b58pc \in {"encoded", "decoded"} =>
          /\ b58text # Panic
          /\ CountLeading(b58text, 49) = CountLeading(b58data, 0)
    /\ b58pc = "decoded" => b58out = Ok(b58data)

\* a slice with two leading zero bytes before a non-zero byte came back
C1_Witness ==
    /\ b58pc = "decoded"
    /\ Len(b58data) >= 3
    /\ b58data[1] = 0 /\ b58data[2] = 0 /\ b58data[3] # 0
    /\ CountLeading(b58text, 49) = 2
    /\ b58out.err = "" /\ b58out.data = b58data

\* C2: for every byte sequence b (empty, all zero, leading zero bytes before
\* small values), DecodeC32(EncodeC32(b)) succeeds and returns exactly b.
C2_C32RoundTrip ==
    /\ c32pc \in {"enc", "dec"} => c32text.data # Panic
    /\ c32pc = "dec" =>
          c32out = [version |-> 0, data |-> c32data, isNil |-> FALSE, err |-> ""]

\* leading zero bytes followed by the small value 1 came back
C2_Witness ==
    /\ c32pc = "dec"
    /\ c32data = <<0, 0, 1>>
    /\ c32text.data = <<48, 48, 49>>
    /\ c32out.err = "" /\ c32out.data = c32data

\* C3: for every version < 32 and payload p, C32CheckDecode of
\* C32CheckEncodePrefixed(version, p, prefix) without its prefix character
\* returns (version, p); DecodeC32Address(EncodeC32Address(version, h)) returns
\* (version, h) for every 20-byte hash h.
C3_C32CheckRoundTrip ==
    /\ c32pc \in {"cenc", "aenc"} /\ c32ver < 32 => c32text.err = ""
    /\ c32pc = "cdec" => c32out = CheckOk(c32ver, c32data)
    /\ c32pc = "adec" /\ Len(c32data) = 20 => c32out = CheckOk(c32ver, c32data)

\* the address of version 22 and a 20-byte hash came back
C3_Witness ==
    /\ c32pc = "adec"
    /\ c32ver = 22
    /\ Len(c32data) = 20 /\ c32data[1] = 164
    /\ c32text.data[1] = 83 /\ c32text.data[2] = 80
    /\ c32out.err = "" /\ c32out.version = 22 /\ c32out.data = c32data

\* every character of s is one of the 58 of the alphabet
InBase58Alphabet(s) ==
    \A i \in 1..Len(s) : \E k \in 1..58 : base58Chars[k] = s[i]

\* C15: DecodeBase58Check(s) returns the payload d exactly when s consists
\* of alphabet characters, decodes to at least 4 bytes, and these end with
\* the checksum of the bytes d before them; otherwise it returns an error and
\* no data: for a character outside the alphabet, for fewer than 4 bytes, for
\* a wrong checksum.  DecodeBase58Check(EncodeBase58Check(b)) = b.
C15_Base58CheckDecode ==
    /\ b58pc \in {"cdec", "tdec"} =>
          LET raw == DecodeBase58(b58text).data
              d == SubSeq(raw, 1, Len(raw) - 4)
              sum == SubSeq(raw, Len(raw) - 3, Len(raw))
          IN /\ ~InBase58Alphabet(b58text) => b58out = Fail("invalid base58 character")
             /\ InBase58Alphabet(b58text) /\ Len(raw) < 4 =>
                   b58out = Fail("base58check data too short for checksum")
             /\ InBase58Alphabet(b58text) /\ Len(raw) >= 4 /\ sum # Checksum(d) =>
                   b58out = Fail("base58check checksum mismatch")
             /\ InBase58Alphabet(b58text) /\ Len(raw) >= 4 /\ sum = Checksum(d) =>
                   b58out = Ok(d)
    /\ b58pc \in {"cdec", "tdec"} /\ b58out.err # "" => b58out.isNil /\ b58out.data = <<>>
    /\ b58pc = "cdec" => b58out = Ok(b58data)

\* an encoded payload whose last character was replaced was refused for its
\* checksum
C15_Witness ==
    /\ b58pc = "tdec"
    /\ b58data = <<0, 1, 255>>
    /\ InBase58Alphabet(b58text)
    /\ Len(b58text) = Len(EncodeBase58Check(b58data))
    /\ b58text # EncodeBase58Check(b58data)
    /\ b58out = Fail("base58check checksum mismatch")

\* C19: what DecodeBase58Check accepted encodes back to the string it was
\* given; a string of alphabet characters is the only text of the bytes it
\* decodes to.
C19_Base58CheckCanonical ==
    /\ b58pc = "creenc" => b58re = b58text
    /\ (b58pc \in {"cdec", "tdec"} /\ InBase58Alphabet(b58text)) =>
          /\ DecodeBase58(b58text).err = ""
          /\ EncodeBase58(DecodeBase58(b58text).data) = b58text

\* the checked text of 00 00 01 was accepted and encoded again to itself
C19_Witness ==
    /\ b58pc = "creenc"
    /\ b58data = <<0, 0, 1>>
    /\ b58out = Ok(b58data)
    /\ CountLeading(b58text, 49) = 2
    /\ b58re = b58text

\* C20: DecodeBitcoinAddress accepts a string only if DecodeBase58Check
\* accepts it with a payload of exactly 21 bytes whose first byte is 0, 5, 111
\* or 196; what it accepted encodes back to the string it was given.
C20_BitcoinAddressRoundTrip ==
    /\ b58pc \in {"bdec", "benc"} =>
          LET c == DecodeBase58Check(b58text)
          IN /\ btc.err = "" <=>
                   (c.err = "" /\ Len(c.data) = 21 /\ c.data[1] \in {0, 5, 111, 196})
             /\ btc.err = "" =>
                   /\ btc.addr.Hash160Bytes = SubSeq(c.data, 2, 21)
                   /\ btc.addr.AddrType =
                         (IF c.data[1] \in {0, 111} THEN "PublicKeyHash" ELSE "ScriptHash")
                   /\ btc.addr.NetworkID =
                         (IF c.data[1] \in {0, 5} THEN "Mainnet" ELSE "Testnet")
             /\ btc.err # "" => btc.isNil
    /\ b58pc = "benc" => b58re = b58text

\* a testnet script-hash address (version 196) was decoded and encoded again
\* to itself
C20_Witness ==
    /\ b58pc = "benc"
    /\ Len(b58data) = 21 /\ b58data[1] = 196
    /\ btc.err = ""
    /\ btc.addr.AddrType = "ScriptHash" /\ btc.addr.NetworkID = "Testnet"
    /\ btc.addr.Hash160Bytes = SubSeq(b58data, 2, 21)
    /\ b58re = b58text

\* the digit of a character that has one: a character of the alphabet
\* 0123456789ABCDEFGHJKMNPQRSTVWXYZ in either case, O for 0, I and L for 1
C32Normal(c) ==
    LET u == IF c >= 97 /\ c <= 122 THEN c - 32 ELSE c
    IN IF u = 79 THEN 48 ELSE IF u \in {73, 76} THEN 49 ELSE u

C32Known(c) == c < 128 /\ \E k \in 1..32 : c32Chars[k] = C32Normal(c)

C32Upper(s) == [i \in 1..Len(s) |-> IF s[i] >= 97 /\ s[i] <= 122 THEN s[i] - 32 ELSE s[i]]
C32Lower(s) == [i \in 1..Len(s) |-> IF s[i] >= 65 /\ s[i] <= 90 THEN s[i] + 32 ELSE s[i]]

\* s with each 0 written as o and each 1 as I, or each 0 as O and each 1 as l
C32Written(s, zero, one) ==
    [i \in 1..Len(s) |-> IF s[i] = 48 THEN zero ELSE IF s[i] = 49 THEN one ELSE s[i]]

\* what C32CheckDecode reads in s: the body behind the version character
C32Body(s) == DecodeC32(SliceFrom(s, 1))

\* C16: C32CheckDecode fails, with no version and no payload, for fewer than
\* 2 characters, for a body that decodes to fewer than 4 bytes, and for last
\* 4 bytes that are not the checksum of version ++ payload; DecodeC32Address
\* fails for every string of 5 characters or fewer; C32CheckEncodePrefixed
\* (and EncodeC32Address) fails for every version >= 32.
C16_C32CheckFailures ==
    /\ c32pc = "tcdec" =>
          LET t == c32text.data
              body == C32Body(t).data
              payload == SubSeq(body, 1, Len(body) - 4)
              sum == SubSeq(body, Len(body) - 3, Len(body))
              version == DecodeC32(<<t[1]>>).data
              sound == /\ Len(t) >= 2
                       /\ \A i \in 1..Len(t) : C32Known(t[i])
                       /\ Len(body) >= 4
                       /\ sum = Checksum(version \o payload)
          IN /\ Len(t) < 2 => c32out.err # ""
             /\ (Len(t) >= 2 /\ C32Body(t).err = "" /\ Len(body) < 4) =>
                   /\ c32out.err # ""
                   /\ (\A i \in 1..Len(t) : t[i] < 128) =>
                         c32out = CheckFail("invalid c32 string: decoded byte length less than 4")
             /\ (Len(t) >= 2 /\ (\A i \in 1..Len(t) : C32Known(t[i])) /\ Len(body) >= 4
                 /\ sum # Checksum(version \o payload)) =>
                   c32out = CheckFail("checksum mismatch")
             /\ c32out.err = "" <=> sound
             /\ sound => c32out = CheckOk(version[1], payload)
    /\ (c32pc \in {"tcdec", "tadec"} /\ c32out.err # "") =>
          c32out.version = 0 /\ c32out.isNil /\ c32out.data = <<>>
    /\ (c32pc = "tadec" /\ Len(c32text.data) <= 5) =>
          c32out = CheckFail("invalid c32 address: address string smaller than 5 bytes")
    /\ (c32pc = "tadec" /\ Len(c32text.data) > 5) =>
          c32out = C32CheckDecode(SliceFrom(c32text.data, 1))
    /\ (c32pc \in {"cenc", "aenc"} /\ c32ver >= 32) => c32text.err # "" /\ c32text.isNil

\* a checked encoding whose last character was replaced by the next of the
\* alphabet was refused for its checksum
C16_Witness ==
    /\ c32pc = "tcdec"
    /\ c32ver = 22
    /\ c32data = <<1, 255>>
    /\ Len(c32text.data) >= 2
    /\ \A i \in 1..Len(c32text.data) : C32Known(c32text.data[i])
    /\ c32text.data[1] = c32Chars[23]
    /\ c32out = CheckFail("checksum mismatch")

\* C17: DecodeC32 reads each character through one table that ignores the
\* case of letters and takes O for 0 and I and L for 1: a string and its
\* rewritings in the other case or with these characters decode to the same
\* bytes; a string with a character outside the table (such as U) or a byte
\* >= 128 fails.
C17_C32DecodeNormalizes ==
    c32pc = "tdec" =>
        LET t == c32text.data
            same(u) == LET r == DecodeC32(u)
                       IN r.err = c32out.err /\ r.data = c32out.data
        IN /\ c32out.err = "" <=> \A i \in 1..Len(t) : C32Known(t[i])
           /\ (\E i \in 1..Len(t) : t[i] >= 128) =>
                 c32out.err = "invalid c32 string: must be ASCII"
           /\ c32out.err # "" => c32out.isNil /\ c32out.data = <<>>
           /\ (\A i \in 1..Len(t) : C32Known(t[i])) =>
                 /\ same(C32Upper(t)) /\ same(C32Lower(t))
                 /\ same(C32Written(t, 79, 73)) /\ same(C32Written(t, 111, 108))
                 /\ same(C32Written(C32Upper(t), 79, 76))
                 /\ same([i \in 1..Len(t) |-> C32Normal(t[i])])

\* an address written in lower case, with O for 0 and L for 1, decoded to
\* the bytes its plain spelling decodes to
C17_Witness ==
    /\ c32pc = "tdec"
    /\ Len(c32data) = 20
    /\ c32out.err = ""
    /\ \E i \in 1..Len(c32text.data) : c32text.data[i] = 79
    /\ \E i \in 1..Len(c32text.data) : c32text.data[i] >= 97
    /\ c32out.data = DecodeC32(EncodeC32Address(c32ver, c32data).data).data

----------------------------------------------------------------------------
(* Claims about the value decoder: what the claims read off a finished call. *)

\* the bytes the caller put at cvstart
CVBody == SubSeq(cvinput, cvstart + 1, cvend)

\* k "optional some" wrappers around a leaf
SomeNest(k) == { Nest(k, <<PrefixOptionalSome>>, leaf) : leaf \in {EncTrue, EncListTrueTrue} }

\* the entries into decodeClarityValueInternal, in order
Calls(log) == SelectSeq(log, LAMBDA e : e.ev = "call")

RECURSIVE SetToSeq(_)
SetToSeq(S) ==
    IF S = {} THEN <<>>
    ELSE LET x == CHOOSE y \in S : TRUE IN <<x>> \o SetToSeq(S \ {x})

\* the values directly inside a decoded value
Children(cv) ==
    LET v == cv.Value
    IN CASE v.type \in {"ok", "err", "some"} -> <<v.Value>>
         [] v.type = "list" -> v.items
         [] v.type = "tuple" ->
               LET ks == SetToSeq(DOMAIN v.data) IN [i \in 1..Len(ks) |-> v.data[ks[i]]]
         [] OTHER -> <<>>

\* the number of nodes d levels below the root of a decoded value
RECURSIVE NodesAt(_, _)
RECURSIVE NodesAtIn(_, _)
NodesAtIn(cs, d) ==
    IF cs = <<>> THEN 0 ELSE NodesAt(Head(cs), d) + NodesAtIn(Tail(cs), d)
NodesAt(cv, d) == IF d = 0 THEN 1 ELSE NodesAtIn(Children(cv), d - 1)

RECURSIVE NodeCount(_)
RECURSIVE NodeCountIn(_)
NodeCountIn(cs) == IF cs = <<>> THEN 0 ELSE NodeCount(Head(cs)) + NodeCountIn(Tail(cs))
NodeCount(cv) == 1 + NodeCountIn(Children(cv))

CallsAt(calls, d) == Cardinality({ i \in 1..Len(calls) : calls[i].n = d })

\* C4 as stated: 17 nested "optional some" wrappers fail with the depth
\* error and 16 nested "optional some" wrappers around a leaf succeed.
C4_SixteenWrappersSucceed ==
    cvpc = "done" =>
        /\ CVBody \in SomeNest(17) => cvres.err = "TypeSignatureTooDeep"
        /\ CVBody \in SomeNest(16) => cvres.err = ""

\* C5: the root is decoded at depth 0 and each child at its parent's depth
\* plus 1; a value whose depth would be 16 is rejected before its prefix byte
\* is read, and no decoded value has a node at depth 16 or more.
C5_DepthDiscipline ==
    cvpc = "done" =>
        LET log == cvres.log
            calls == Calls(log)
        IN /\ Len(calls) >= 1
           /\ calls[1] = CallEvent(0, cvstart)
           /\ \A i \in 2..Len(calls) :
                 calls[i].n >= 1 /\ calls[i].n <= calls[i - 1].n + 1
           /\ \A i \in 1..Len(calls) :
                 /\ calls[i].n <= 16
                 /\ calls[i].n = 16 =>
                       /\ i = Len(calls)
                       /\ log[Len(log)] = calls[i]
                       /\ cvres.err = "TypeSignatureTooDeep"
                       /\ cvres.pos = calls[i].at
           /\ cvres.err = "TypeSignatureTooDeep" => calls[Len(calls)].n = 16
           /\ cvres.err = "" =>
                 /\ \A d \in 0..(MaxNest + 2) :
                       /\ NodesAt(cvres.cv, d) <= CallsAt(calls, d)
                       /\ d >= 16 => NodesAt(cvres.cv, d) = 0
                       /\ NodeCount(cvres.cv) = Len(calls) =>
                             NodesAt(cvres.cv, d) = CallsAt(calls, d)

\* sixteen wrappers were entered at depths 0 to 15 and the value inside them
\* was rejected at depth 16 with its prefix byte unread
C5_Witness ==
    /\ cvpc = "done"
    /\ cvres.err = "TypeSignatureTooDeep"
    /\ Len(Calls(cvres.log)) = 17
    /\ \A i \in 1..17 : Calls(cvres.log)[i].n = i - 1
    /\ cvres.pos = cvstart + 16
    /\ cvres.pos < Len(cvinput)

\* a u32 field above 1,048,576
FieldAbove(f) == f[1] > 0 \/ f[2] > 16 \/ (f[2] = 16 /\ (f[3] > 0 \/ f[4] > 0))

IllegalSize(p) ==
    CASE p = PrefixBuffer -> "Illegal buffer type size"
      [] p = PrefixList -> "Illegal list type size"
      [] p = PrefixTuple -> "Illegal tuple type size"
      [] p = PrefixStringASCII -> "Illegal string-ascii type size"
      [] p = PrefixStringUTF8 -> "Illegal string-utf8 type size"

\* C6: a Buffer, List, Tuple, StringASCII or StringUTF8 whose u32 field is
\* above 1,048,576 fails before anything is allocated and before a further
\* byte is read, whatever follows; a field of exactly 1,048,576 passes this
\* check.
C6_OversizeRejected ==
    cvpc = "done" =>
        \A i \in 1..Len(cvres.log) :
            LET e == cvres.log[i]
                p == cvinput[e.at + 1]
                f == SubSeq(cvinput, e.at + 2, e.at + 5)
            IN (/\ e.ev = "call" /\ e.n < 16
                /\ e.at + 5 <= Len(cvinput)
                /\ cvinput[e.at + 1] \in CVSizedPrefixes) =>
                  /\ FieldAbove(f) =>
                        /\ i = Len(cvres.log)
                        /\ cvres.err = IllegalSize(p)
                        /\ cvres.pos = e.at + 5
                        /\ cvres.cv = ZeroClarityValue
                  /\ f = CVExactLimit =>
                        /\ cvres.err # IllegalSize(p)
                        /\ p # PrefixTuple =>
                              /\ i < Len(cvres.log)
                              /\ cvres.log[i + 1] = AllocEvent(e.at + 5, 1048576)

\* a list element with a count of 1,048,577 in front of two more bytes was
\* rejected right after its count
C6_Witness ==
    /\ cvpc = "done"
    /\ cvres.err = "Illegal list type size"
    /\ Len(Calls(cvres.log)) = 3
    /\ cvres.pos + 2 <= Len(cvinput)
    /\ SubSeq(cvinput, cvres.pos - 3, cvres.pos) = <<0, 16, 0, 1>>
    /\ cvres.log[Len(cvres.log)].ev = "call"

\* C7: a decode that fails at any nesting level returns an error and the
\* zero ClarityValue, and the reader stays where the failing step left it.
C7_FailureIsTotal ==
    cvpc = "done" =>
        /\ ~cvwf => cvres.err # ""
        /\ cvres.err # "" =>
              /\ cvres.cv = ZeroClarityValue
              /\ cvstop >= 0 => cvres.pos = cvstart + cvstop
              /\ cvres.err \in {"EOF", "unexpected EOF"} => cvres.pos = Len(cvinput)

\* the second element of a list had an unknown prefix: the call failed after
\* that byte, with bytes left behind it
C7_Witness ==
    /\ cvpc = "done"
    /\ cvres.err = "Bad type prefix"
    /\ cvinput[cvstart + 1] = PrefixList
    /\ cvstop = 7
    /\ cvres.pos = cvstart + 7
    /\ cvres.pos < Len(cvinput)
    /\ cvres.cv = ZeroClarityValue

\* C8: a successful decode started at offset s ends at s + L, L the length of
\* the value's encoding; bytes from s + L on are neither read nor an error.
C8_CursorAfterValue ==
    cvpc = "done" /\ cvres.err = "" =>
        /\ cvwf
        /\ cvres.pos = cvend
        /\ cvres = DecodeClarityValue(SubSeq(cvinput, 1, cvend), cvstart, cvwith)

\* a tuple decoded from offset 1 with two bytes left after it
C8_Witness ==
    /\ cvpc = "done"
    /\ cvres.err = ""
    /\ cvstart = 1
    /\ cvres.cv.Value.type = "tuple"
    /\ cvres.pos = cvend
    /\ Len(cvinput) = cvend + 2

\* the node cv holds the bytes of input from offset a on, and so do the
\* nodes inside it, each at its place in cv's bytes
RECURSIVE SpanAt(_, _, _)
RECURSIVE ListSpans(_, _, _, _)
ListSpans(items, input, a, end) ==
    IF items = <<>> THEN a = end
    ELSE /\ SpanAt(Head(items), input, a)
         /\ ListSpans(Tail(items), input, a + Len(Head(items).SerializedBytes), end)
SpanAt(cv, input, a) ==
    LET n == Len(cv.SerializedBytes)
        v == cv.Value
    IN /\ cv.hasBytes
       /\ n >= 1
       /\ a + n <= Len(input)
       /\ cv.SerializedBytes = SubSeq(input, a + 1, a + n)
       /\ CASE v.type \in {"ok", "err", "some"} ->
                 /\ SpanAt(v.Value, input, a + 1)
                 /\ Len(v.Value.SerializedBytes) = n - 1
            [] v.type = "list" -> ListSpans(v.items, input, a + 5, a + n)
            [] v.type = "tuple" ->
                 \A k \in DOMAIN v.data :
                    \E off \in (a + 5)..(a + n - 1) :
                       /\ SubSeq(input, off + 1, off + 1 + Len(k)) = <<Len(k)>> \o k
                       /\ SpanAt(v.data[k], input, off + 1 + Len(k))
                       /\ off + 1 + Len(k) + Len(v.data[k].SerializedBytes) <= a + n
            [] OTHER -> TRUE

\* no node of the decoded value holds bytes
RECURSIVE NoBytes(_)
NoBytes(cv) ==
    /\ ~cv.hasBytes
    /\ cv.SerializedBytes = <<>>
    /\ \A i \in 1..Len(Children(cv)) : NoBytes(Children(cv)[i])

\* C9: with withBytes every node of the decoded value holds the input from
\* its prefix byte to the end of its payload, a child's bytes lying inside
\* its parent's; without withBytes no node holds bytes.
C9_SerializedBytesSpan ==
    cvpc = "done" /\ cvres.err = "" =>
        IF cvwith
        THEN /\ SpanAt(cvres.cv, cvinput, cvstart)
             /\ Len(cvres.cv.SerializedBytes) = cvres.pos - cvstart
        ELSE NoBytes(cvres.cv)

\* the list (true, (some true)) decoded with withBytes from offset 1: the
\* second element holds 0a 03 and the value inside it 03
C9_Witness ==
    /\ cvpc = "done"
    /\ cvwith
    /\ cvres.err = ""
    /\ cvstart = 1
    /\ cvres.cv.SerializedBytes = <<11, 0, 0, 0, 2, 3, 10, 3>>
    /\ cvres.cv.Value.items[2].SerializedBytes = <<10, 3>>
    /\ cvres.cv.Value.items[2].Value.Value.SerializedBytes = <<3>>

\* C11: a value whose prefix byte is in 15..255 fails with the bad-type-prefix
\* error right after that one byte, at the top and inside other values; a
\* prefix byte in 0..14 never gives that error for that byte.
C11_BadPrefixRejected ==
    cvpc = "done" =>
        LET log == cvres.log
            calls == Calls(log)
            last == calls[Len(calls)]
        IN /\ \A i \in 1..Len(log) :
                 (/\ log[i].ev = "call" /\ log[i].n < 16
                  /\ log[i].at < Len(cvinput)
                  /\ cvinput[log[i].at + 1] >= 15) =>
                     /\ i = Len(log)
                     /\ cvres.err = "Bad type prefix"
                     /\ cvres.pos = log[i].at + 1
                     /\ cvres.cv = ZeroClarityValue
           /\ cvres.err = "Bad type prefix" =>
                 /\ last.at < Len(cvinput)
                 /\ cvinput[last.at + 1] \in 15..255
                 /\ log[Len(log)] = last
                 /\ cvres.pos = last.at + 1
           /\ (cvstart < Len(cvinput) /\ cvinput[cvstart + 1] \in 0..14) =>
                 ~(cvres.err = "Bad type prefix" /\ Len(calls) = 1)

\* the byte ff at offset 1, with a byte left after it, was refused after one
\* byte
C11_Witness ==
    /\ cvpc = "done"
    /\ cvstart = 1
    /\ Len(cvinput) = 3
    /\ cvinput[2] = 255
    /\ cvres.err = "Bad type prefix"
    /\ cvres.pos = 2
    /\ Len(cvres.log) = 1

\* the keys of a tuple in ascending order
RECURSIVE SortedKeys(_)
SortedKeys(S) ==
    IF S = {} THEN <<>>
    ELSE LET k == CHOOSE x \in S : \A y \in S \ {x} : BytesLess(x, y)
         IN <<k>> \o SortedKeys(S \ {k})

\* the tuple encodings the driver draws from
CVTupleEncodings == { b \in CVLevel1 \cup CVLevel2 : b[1] = PrefixTuple }

\* " (key value)" for each key of keys, in their order
RECURSIVE PairsInOrder(_, _)
PairsInOrder(data, keys) ==
    IF keys = <<>> THEN <<>>
    ELSE <<32, 40>> \o Head(keys) \o <<32>> \o ReprString(data[Head(keys)].Value, 0)
         \o <<41>> \o PairsInOrder(data, Tail(keys))

\* C14: ReprString and TypeSignature of a decoded tuple do not depend on the
\* order in which the map yields its keys; the keys are emitted in ascending
\* order; every wire encoding that decodes to the same (key, value) pairs,
\* whatever their order on the wire, renders to the same two strings.
C14_TupleRenderingCanonical ==
    cvpc = "shown" =>
        LET v == cvres.cv.Value
            plain(b) == DecodeClarityValue(b, 0, FALSE)
            mine == plain(CVBody).cv.Value
        IN /\ \A r \in 0..(RangeOrders - 1) :
                 /\ ReprString(v, r) = cvrepr.repr
                 /\ TypeSignature(v, r) = cvrepr.sig
           /\ cvrepr.repr =
                 TextTuple \o PairsInOrder(v.data, SortedKeys(DOMAIN v.data)) \o <<41>>
           /\ \A b2 \in CVTupleEncodings :
                 (/\ cvstart = 0 /\ cvend = Len(cvinput) /\ ~cvwith
                  /\ Len(b2) = Len(CVBody)
                  /\ plain(b2).err = ""
                  /\ plain(b2).cv.Value = mine) =>
                     \A r \in 0..(RangeOrders - 1) :
                        /\ ReprString(plain(b2).cv.Value, r) = cvrepr.repr
                        /\ TypeSignature(plain(b2).cv.Value, r) = cvrepr.sig

\* the tuple sent as (b true) (a none) was rendered as
\* "(tuple (a none) (b true))" with the signature
\* "(tuple (a (optional UnknownType)) (b bool))"
C14_Witness ==
    /\ cvpc = "shown"
    /\ CVBody = <<PrefixTuple, 0, 0, 0, 2, 1, 98, PrefixBoolTrue, 1, 97, PrefixOptionalNone>>
    /\ cvrepr.repr = 
          <<40, 116, 117, 112, 108, 101, 32, 40, 97, 32, 110, 111, 110, 101, 41, 32, 40, 98, 32, 116, 114, 117, 101, 41, 41>>
    /\ cvrepr.sig = 
          <<40, 116, 117, 112, 108, 101, 32, 40, 97, 32, 40, 111, 112, 116, 105, 111, 110, 97, 108, 32, 85, 110, 107, 110, 111, 119, 110, 84, 121, 112, 101, 41, 41, 32, 40, 98, 32, 98, 111, 111, 108, 41, 41>>

----------------------------------------------------------------------------
(* Claims about names. *)

\* the name the reader of a Decode function holds behind the length byte
NMRead == SubSeq(nminput, 1, nmlen)

\* a letter followed by letters, digits, '_' or '-'
ContractNameGrammar(s) ==
    /\ Len(s) >= 1
    /\ IsLetter(s[1])
    /\ \A i \in 2..Len(s) : IsLetter(s[i]) \/ IsDigit(s[i]) \/ s[i] = 95 \/ s[i] = 45

\* the contract names of the claim: the grammar with 1 to 40 characters, or
\* "__transient"
ContractNameAcceptable(s) ==
    \/ ContractNameGrammar(s) /\ Len(s) >= 1 /\ Len(s) <= 40
    \/ s = NMTransient

\* C12 as stated: ValidateContractName, and DecodeContractName for a
\* length-prefixed name, accept a name exactly when it matches
\* [A-Za-z][A-Za-z0-9_-]* with 1 to 40 characters or is "__transient"; a
\* conforming name of 41 to 128 characters is rejected.
C12_ContractNameAccepted ==
    /\ nmpc = "ValidateContractName" =>
          (nmres.err = "" <=> ContractNameAcceptable(nminput))
    /\ nmpc = "DecodeContractName" =>
          (nmres.err = "" <=> (nmlen <= Len(nminput) /\ ContractNameAcceptable(NMRead)))

\* the operators and comparisons that are names on their own
ClarityNameSymbols ==
    { <<45>>, <<43>>, <<61>>, <<47>>, <<42>>, <<60>>, <<62>>, <<60, 61>>, <<62, 61>> }

\* the names of the claim: at most 128 characters, and a symbol or a letter
\* followed by letters, digits or characters of -_!?+<>=/*
ClarityNameAcceptable(s) ==
    /\ Len(s) <= 128
    /\ \/ s \in ClarityNameSymbols
       \/ /\ Len(s) >= 1
          /\ IsLetter(s[1])
          /\ \A i \in 2..Len(s) :
                \/ IsLetter(s[i]) \/ IsDigit(s[i])
                \/ s[i] \in {45, 95, 33, 63, 43, 60, 62, 61, 47, 42}

\* C13: ValidateClarityName accepts a string exactly when it has at most 128
\* characters and is one of - + = / * < > <= >= or a letter followed by
\* letters, digits or characters of -_!?+<>=/*; DecodeClarityName reads a
\* length byte and that many bytes and accepts the same names; the empty name
\* and every length byte above 128 are rejected.
C13_ClarityNameAccepted ==
    /\ nmpc = "ValidateClarityName" =>
          IF ClarityNameAcceptable(nminput)
          THEN nmres = [name |-> nminput, err |-> "", pos |-> 0]
          ELSE nmres.err # "" /\ nmres.name = <<>>
    /\ nmpc = "DecodeClarityName" =>
          /\ nmlen > 128 => nmres.err # "" /\ nmres.pos = 1
          /\ nmlen = 0 => nmres.err # ""
          /\ nmres.err = "" <=> (nmlen <= Len(nminput) /\ ClarityNameAcceptable(NMRead))
          /\ nmres.err = "" => nmres.name = NMRead /\ nmres.pos = 1 + nmlen
          /\ nmres.err # "" => nmres.name = <<>>

\* a name of 128 characters behind the length byte 128 was accepted, with a
\* byte left after it
C13_Witness ==
    /\ nmpc = "DecodeClarityName"
    /\ nmlen = 128
    /\ Len(nminput) = 129
    /\ nmres.err = ""
    /\ Len(nmres.name) = 128
    /\ nmres.pos = 129

----------------------------------------------------------------------------
(* The value binary format read as an encoder: one prefix byte, then the    *)
(* payload of the variant as the layout table of the format gives it.       *)

\* the high 8 bytes of a 16-byte integer whose low 8 bytes are bits
SignExtend(bits) == IF bits[1] >= 128 THEN Eight(255) ELSE Eight(0)

RECURSIVE Serialize(_)
RECURSIVE SerializeAll(_)
RECURSIVE SerializeEntries(_, _)
SerializeAll(items) ==
    IF items = <<>> THEN <<>> ELSE Serialize(Head(items)) \o SerializeAll(Tail(items))
SerializeEntries(data, keys) ==
    IF keys = <<>> THEN <<>>
    ELSE <<Len(Head(keys))>> \o Head(keys) \o Serialize(data[Head(keys)])
         \o SerializeEntries(data, Tail(keys))

\* the encoding of a decoded value
Serialize(cv) ==
    LET v == cv.Value
    IN CASE v.type = "int" -> <<PrefixInt>> \o SignExtend(v.bits) \o v.bits
         [] v.type = "uint" -> <<PrefixUInt>> \o Eight(0) \o v.bits
         [] v.type = "buffer" -> <<PrefixBuffer>> \o U32Bytes(Len(v.data)) \o v.data
         [] v.type = "bool" -> IF v.b THEN <<PrefixBoolTrue>> ELSE <<PrefixBoolFalse>>
         [] v.type = "principal" ->
               <<PrefixPrincipalStandard, v.principal.Version>> \o v.principal.Hash
         [] v.type = "contract" ->
               <<PrefixPrincipalContract, v.Issuer.Version>> \o v.Issuer.Hash
               \o <<Len(v.Name)>> \o v.Name
         [] v.type = "ok" -> <<PrefixResponseOk>> \o Serialize(v.Value)
         [] v.type = "err" -> <<PrefixResponseErr>> \o Serialize(v.Value)
         [] v.type = "none" -> <<PrefixOptionalNone>>
         [] v.type = "some" -> <<PrefixOptionalSome>> \o Serialize(v.Value)
         [] v.type = "list" ->
               <<PrefixList>> \o U32Bytes(Len(v.items)) \o SerializeAll(v.items)
         [] v.type = "tuple" ->
               <<PrefixTuple>> \o U32Bytes(Cardinality(DOMAIN v.data))
               \o SerializeEntries(v.data, SortedKeys(DOMAIN v.data))
         [] v.type = "ascii" -> <<PrefixStringASCII>> \o U32Bytes(Len(v.data)) \o v.data
         [] v.type = "utf8" ->
               <<PrefixStringUTF8>> \o U32Bytes(Len(Flatten(v.groups)))
               \o Flatten(v.groups)

\* the bytes every node of a decoded value holds are the node's encoding
RECURSIVE HoldsOwnEncoding(_)
HoldsOwnEncoding(cv) ==
    /\ cv.SerializedBytes = Serialize(cv)
    /\ \A i \in 1..Len(Children(cv)) : HoldsOwnEncoding(Children(cv)[i])

\* C10 as stated: the bytes recorded for a value decoded with withBytes are
\* the bytes re-encoding the value produces.
C10_BytesAreReencoding ==
    cvpc = "done" /\ cvwith /\ cvres.err = "" => HoldsOwnEncoding(cvres.cv)

----------------------------------------------------------------------------
(* Claims about the lookup tables. *)

\* C18: the tables base58Digits and c32CharMap are written only by the
\* package's init() functions, which finish before any call starts: no call
\* is in progress before they finish, no table is written during a call or
\* read before it is complete, after initialisation the tables are the
\* complete ones and stay so, and every call reads the value of the complete
\* table, the same for every goroutine.
C18_TablesReadOnlyAfterInit ==
    /\ ~tbracy
    /\ (\E g \in Goroutine : gor[g].pc # "idle") => tbpc = "done"
    /\ tbpc = "done" => digitsB58 = base58Digits /\ charMapC32 = c32CharMap
    /\ (tbtodo # <<>> /\ Len(tbtodo) = 2 /\ tbpc = "fill" /\ tbi = 0) =>
          digitsB58 = ZeroTable /\ charMapC32 = ZeroTable
    /\ \A g \in Goroutine :
          gor[g].pc = "returned" =>
              /\ gor[g].call = "DecodeBase58" => gor[g].val = base58Digits[gor[g].c]
              /\ gor[g].call = "DecodeC32Bytes" => gor[g].val = c32CharMap[gor[g].c]
    /\ \A g, h \in Goroutine :
          (gor[g].pc = "returned" /\ gor[h].pc = "returned"
           /\ gor[g].call = gor[h].call /\ gor[g].c = gor[h].c) => gor[g].val = gor[h].val

\* two goroutines at once read the entry of 'l': -1 in the Base58 table, 1
\* in the C32 table
C18_Witness ==
    /\ tbpc = "done"
    /\ gor[1] = [pc |-> "returned", call |-> "DecodeBase58", c |-> 108, val |-> -1]
    /\ gor[2] = [pc |-> "returned", call |-> "DecodeC32Bytes", c |-> 108, val |-> 1]

----------------------------------------------------------------------------
(* Claims about the two modes of the value decoder. *)

\* the decoded Value tree of a ClarityValue, without the bytes its nodes hold
RECURSIVE ValueTree(_)
ValueTree(cv) ==
    LET v == cv.Value
    IN CASE v.type \in {"ok", "err", "some"} ->
               [type |-> v.type, Value |-> ValueTree(v.Value)]
         [] v.type = "list" ->
               [type |-> "list", items |-> [i \in 1..Len(v.items) |-> ValueTree(v.items[i])]]
         [] v.type = "tuple" ->
               [type |-> "tuple", data |-> [k \in DOMAIN v.data |-> ValueTree(v.data[k])]]
         [] OTHER -> v

\* what the call of the other mode returns for the same reader
OtherMode == DecodeClarityValue(cvinput, cvstart, ~cvwith)

\* C21: for every input DecodeClarityValue with withBytes = true and with
\* withBytes = false both fail (with the same error) or both succeed, and
\* then yield the same Value tree and leave the cursor at the same offset.
C21_ModesAgree ==
    cvpc = "done" =>
        /\ cvres.err = OtherMode.err
        /\ cvres.pos = OtherMode.pos
        /\ cvres.err = "" => ValueTree(cvres.cv) = ValueTree(OtherMode.cv)
        /\ Calls(cvres.log) = Calls(OtherMode.log)

\* a list decoded with withBytes from offset 1, bytes following it: the call
\* without withBytes stops at the same offset, before those bytes
C21_Witness ==
    /\ cvpc = "done"
    /\ cvwith
    /\ cvres.err = ""
    /\ cvstart = 1
    /\ cvres.cv.Value.type = "list"
    /\ Len(cvres.cv.Value.items) = 2
    /\ cvend < Len(cvinput)
    /\ cvres.pos = cvend
    /\ OtherMode.pos = cvend
    /\ ValueTree(OtherMode.cv) = ValueTree(cvres.cv)

----------------------------------------------------------------------------
(* Claims about single kinds of value. *)

\* the number of bytes the reader holds from the call's offset on
CVAvail == Len(cvinput) - cvstart

\* the reader's buffer with payload bytes 0..7 of the value at cvstart
\* replaced by h
WithHighBytes(h) ==
    SubSeq(cvinput, 1, cvstart + 1) \o h \o SubSeq(cvinput, cvstart + 10, Len(cvinput))

\* C22: for the prefixes Int and UInt exactly 16 payload bytes are consumed
\* and the value is payload bytes 8..15 (a signed 64-bit number for Int, an
\* unsigned one for UInt); inputs that differ in payload bytes 0..7 only
\* decode to the same value and none is refused.
C22_IntLowEightBytes ==
    (cvpc = "done" /\ CVAvail >= 1 /\ cvinput[cvstart + 1] \in {PrefixInt, PrefixUInt}) =>
        IF CVAvail < 17
        THEN cvres.err = "unexpected EOF" \/ cvres.err = "EOF"
        ELSE /\ cvres.err = ""
             /\ cvres.pos = cvstart + 17
             /\ cvres.cv.Value =
                   [type |-> IF cvinput[cvstart + 1] = PrefixInt THEN "int" ELSE "uint",
                    bits |-> SubSeq(cvinput, cvstart + 10, cvstart + 17)]
             /\ \A h \in {Eight(0), Eight(255), Last8(1)} :
                   LET other == DecodeClarityValue(WithHighBytes(h), cvstart, cvwith)
                   IN /\ other.err = ""
                      /\ other.pos = cvres.pos
                      /\ other.cv.Value = cvres.cv.Value

\* a UInt whose payload bytes 0..7 are ff..ff, decoded from offset 1:
\* bytes 8..15 came out as the value
C22_Witness ==
    /\ cvpc = "done"
    /\ cvres.err = ""
    /\ cvstart = 1
    /\ CVAvail >= 17
    /\ cvinput[cvstart + 1] = PrefixUInt
    /\ SubSeq(cvinput, cvstart + 2, cvstart + 9) = Eight(255)
    /\ cvres.cv.Value = [type |-> "uint", bits |-> Last8(15)]

\* the declared length of the value at cvstart with a u32 length field
CVDeclared == U32Value(ReadU32(cvinput, cvstart + 1))

\* C23: for a StringUTF8 value of declared byte length n the decoder consumes
\* exactly n payload bytes and splits them into non-empty groups, in order,
\* whose concatenation is the n payload bytes.
C23_Utf8GroupsConcatenate ==
    (cvpc = "done" /\ CVAvail >= 5 /\ cvinput[cvstart + 1] = PrefixStringUTF8
     /\ cvres.err = "") =>
        /\ cvres.pos = cvstart + 5 + CVDeclared
        /\ cvres.cv.Value.type = "utf8"
        /\ \A i \in 1..Len(cvres.cv.Value.groups) : cvres.cv.Value.groups[i] # <<>>
        /\ Flatten(cvres.cv.Value.groups) =
              SubSeq(cvinput, cvstart + 6, cvstart + 5 + CVDeclared)

\* the same call made with withBytes: each node holds the bytes read for it
WithBytesMode == DecodeClarityValue(cvinput, cvstart, TRUE)

\* cv and wcv being one decoded value without and with its bytes: at every
\* node TypePrefix() is the first byte read for the node
RECURSIVE PrefixesMatch(_, _)
PrefixesMatch(cv, wcv) ==
    /\ wcv.SerializedBytes # <<>>
    /\ TypePrefix(cv.Value) = wcv.SerializedBytes[1]
    /\ cv.Value.type = wcv.Value.type
    /\ CASE cv.Value.type \in {"ok", "err", "some"} ->
               PrefixesMatch(cv.Value.Value, wcv.Value.Value)
         [] cv.Value.type = "list" ->
               /\ Len(cv.Value.items) = Len(wcv.Value.items)
               /\ \A i \in 1..Len(cv.Value.items) :
                     PrefixesMatch(cv.Value.items[i], wcv.Value.items[i])
         [] cv.Value.type = "tuple" ->
               /\ DOMAIN cv.Value.data = DOMAIN wcv.Value.data
               /\ \A k \in DOMAIN cv.Value.data :
                     PrefixesMatch(cv.Value.data[k], wcv.Value.data[k])
         [] OTHER -> TRUE

\* C24: for every node of every decoded value, Value.TypePrefix() is the
\* prefix byte that was read from the wire for that node, for each of the
\* prefixes 0..14; byte 3 gives a boolean of TypePrefix 3, byte 4 one of 4.
C24_TypePrefixIsWireByte ==
    (cvpc = "done" /\ cvres.err = "") =>
        /\ TypePrefix(cvres.cv.Value) = cvinput[cvstart + 1]
        /\ cvinput[cvstart + 1] \in 0..14
        /\ PrefixesMatch(cvres.cv, WithBytesMode.cv)

\* the list of a true and a false boolean, decoded without its bytes
C24_Witness ==
    /\ cvpc = "done"
    /\ ~cvwith
    /\ cvres.err = ""
    /\ cvinput[cvstart + 1] = PrefixList
    /\ Len(cvres.cv.Value.items) = 2
    /\ TypePrefix(cvres.cv.Value.items[1].Value) = PrefixBoolTrue
    /\ TypePrefix(cvres.cv.Value.items[2].Value) = PrefixBoolFalse
    /\ SubSeq(cvinput, cvstart + 6, cvstart + 7) = <<3, 4>>

\* the n pairs on the wire from offset pos on, in order: each key with the
\* value decoded behind it
RECURSIVE WirePairs(_, _, _)
WirePairs(pos, n, pairs) ==
    IF n = 0 THEN pairs
    ELSE LET key == DecodeClarityName(cvinput, pos)
             val == decodeClarityValueInternal(cvinput, key.pos, 1, cvwith)
         IN WirePairs(val.pos, n - 1,
                      Append(pairs, [key |-> key.name, cv |-> val.cv, end |-> val.pos]))

\* the pairs of the tuple at cvstart
CVPairs == WirePairs(cvstart + 5, CVDeclared, <<>>)

\* C25: a tuple whose encoding declares n pairs and repeats a key decodes
\* without error: all n pairs are consumed, a repeated key keeps the value of
\* its last occurrence, and the tuple has fewer than n entries; it has n
\* entries exactly when the n keys are pairwise distinct.  (A complete tuple
\* fails only for its nesting depth.)
C25_DuplicateKeysOverwrite ==
    (cvpc = "done" /\ cvwf /\ cvinput[cvstart + 1] = PrefixTuple) =>
        LET n == CVDeclared
            data == cvres.cv.Value.data
            distinct == \A i, j \in 1..n : CVPairs[i].key = CVPairs[j].key => i = j
        IN /\ cvres.err \in {"", "TypeSignatureTooDeep"}
           /\ ~distinct => cvres.err = ""
           /\ cvres.err = "" =>
                 /\ cvres.cv.Value.type = "tuple"
                 /\ cvres.pos = cvend
                 /\ n > 0 => CVPairs[n].end = cvend
                 /\ DOMAIN data = { CVPairs[i].key : i \in 1..n }
                 /\ \A i \in 1..n :
                       (\A j \in (i + 1)..n : CVPairs[j].key # CVPairs[i].key) =>
                           data[CVPairs[i].key] = CVPairs[i].cv
                 /\ Cardinality(DOMAIN data) <= n
                 /\ Cardinality(DOMAIN data) = n <=> distinct

\* the tuple of count 2 with the pairs a: true and a: none decoded to the
\* single entry a: none
C25_Witness ==
    /\ cvpc = "done"
    /\ cvres.err = ""
    /\ CVBody = <<PrefixTuple, 0, 0, 0, 2, 1, 97, PrefixBoolTrue, 1, 97, PrefixOptionalNone>>
    /\ DOMAIN cvres.cv.Value.data = {<<97>>}
    /\ cvres.cv.Value.data[<<97>>].Value = [type |-> "none"]
    /\ cvres.pos = cvend

\* C26: decoding a StandardPrincipal or ContractPrincipal accepts every
\* version byte; for version < 32 ReprString is "'" and the C32 address (for
\* a contract, then "." and the name), for version >= 32 it is a string that
\* begins with "ERROR: ", and the decode itself returned no error.
C26_PrincipalVersionUnchecked ==
    (cvpc \in {"done", "pshown"} /\ cvwf
     /\ cvinput[cvstart + 1] \in {PrefixPrincipalStandard, PrefixPrincipalContract}) =>
        LET version == cvinput[cvstart + 2]
            hash == SubSeq(cvinput, cvstart + 3, cvstart + 22)
            v == cvres.cv.Value
            p == IF v.type = "contract" THEN v.Issuer ELSE v.principal
            tail == IF v.type = "contract" THEN <<46>> \o v.Name ELSE <<>>
            addr == SubSeq(cvrepr.repr, 2, Len(cvrepr.repr) - Len(tail))
        IN /\ cvres.err = ""
           /\ p = [Version |-> version, Hash |-> hash]
           /\ (cvpc = "pshown" /\ version < 32) =>
                 /\ cvrepr.repr = <<39>> \o addr \o tail
                 /\ addr = EncodeC32Address(version, hash).data
                 /\ addr[1] = 83
                 /\ DecodeC32Address(addr) = CheckOk(version, hash)
           /\ (cvpc = "pshown" /\ version >= 32) =>
                 /\ SubSeq(cvrepr.repr, 1, 7) = <<69, 82, 82, 79, 82, 58, 32>>
                 /\ \A i \in 1..Len(cvrepr.repr) : cvrepr.repr[i] # 39

\* a standard principal of version 255 was decoded and rendered as
\* "ERROR: invalid version 255"
C26_Witness ==
    /\ cvpc = "pshown"
    /\ cvres.err = ""
    /\ cvres.cv.Value.type = "principal"
    /\ cvres.cv.Value.principal.Version = 255
    /\ Len(cvrepr.repr) = 26
    /\ SubSeq(cvrepr.repr, 1, 7) = <<69, 82, 82, 79, 82, 58, 32>>
    /\ SubSeq(cvrepr.repr, 24, 26) = <<50, 53, 53>>

----------------------------------------------------------------------------
(* Claims about the leading tag of an address. *)

\* first bytes a caller may put in front of an address: S, s, T, 0, U, NUL
\* and two bytes above 127
C32Tags == {83, 115, 84, 48, 85, 0, 200, 255}

\* C27: what DecodeC32Address returns (version, payload or error) does not
\* depend on the first byte of its input, which is dropped without being
\* compared to 'S': strings of the same length that differ in their first
\* byte only have the same result.
C27_LeadingTagIgnored ==
    c32pc \in {"adec", "tadec"} =>
        /\ \A tag \in C32Tags :
              DecodeC32Address(<<tag>> \o SliceFrom(c32text.data, 1)) = c32out
        /\ Len(c32text.data) > 5 => c32out = C32CheckDecode(SliceFrom(c32text.data, 1))

\* the address of a hash, written in lower case with the tag s, decoded to
\* its version and hash
C27_Witness ==
    /\ c32pc = "tadec"
    /\ Len(c32text.data) > 5
    /\ c32text.data[1] = 115
    /\ c32data \in C32Hashes
    /\ c32out = CheckOk(c32ver, c32data)
    /\ DecodeC32Address(<<200>> \o SliceFrom(c32text.data, 1)) = c32out

----------------------------------------------------------------------------
(* Claims about the list of post conditions of a transaction. *)

\* data[5:], what the reader of DecodeTxPostConditions is over
TXBody == SliceFrom(txdata, 5)

\* the reader's offset before the i-th post condition
TXStartOf(i) == IF i = 1 THEN 0 ELSE txends[i - 1]

\* every post condition appended so far is what DecodePostCondition reads at
\* the end of the one before it, and it took at least one byte
TXAccounted ==
    /\ Len(txends) = Len(txconds)
    /\ \A i \in 1..Len(txends) :
          /\ txends[i] > TXStartOf(i)
          /\ txends[i] <= Len(TXBody)
          /\ DecodePostCondition(TXBody, TXStartOf(i)).err = ""
          /\ DecodePostCondition(TXBody, TXStartOf(i)).pos = txends[i]
          /\ DecodePostCondition(TXBody, TXStartOf(i)).pc = txconds[i]
    /\ txpc = "loop" => txpos = TXStartOf(Len(txends) + 1)

\* what a returned call hands back
TXReturned ==
    txpc = "returned" =>
        /\ txret.isNil <=> txret.err # ""
        /\ txret.isNil => txret.conds = <<>>
        /\ Len(txdata) < 1 => txret.isNil
        /\ Len(txdata) \in 1..4 => ~txret.isNil /\ txret.conds = <<>>
        /\ ~txret.isNil =>
              /\ txret.mode = txdata[1]
              /\ txret.conds = txconds
              /\ TXStartOf(Len(txends) + 1) = Len(TXBody)

\* C28: DecodeTxPostConditions terminates on every input: each turn of its
\* loop takes at least one byte of what is left or returns an error, and the
\* call returns either an error with no response or a response whose post
\* conditions account for exactly all bytes after the 5-byte header, never a
\* part of the list.
C28_PostConditionsTerminate ==
    /\ [](txpc # "ready" => TXAccounted /\ TXReturned)
    /\ (txpc = "loop") ~> (txpc = "returned")

\* a returned response of two post conditions that end where the data ends
C28_Witness ==
    /\ txpc = "returned"
    /\ ~txret.isNil
    /\ Len(txret.conds) = 2
    /\ txret.conds[1].Type = AssetInfoNonfungible
    /\ txret.conds[2].Type = AssetInfoSTX
    /\ txends[2] = Len(txdata) - 5

----------------------------------------------------------------------------
(* Claims about the working buffers of the Base58 codec. *)

\* the working buffer of EncodeBase58 after its conversion loop
B58EncodeWork(data) ==
    B58EncodeLoop(data, 0, [result |-> Zeros(1 + (Len(data) * 7) \div 5),
                            resultLen |-> 0, panic |-> FALSE])

\* the working buffer of DecodeBase58 after its conversion loop
B58DecodeWork(input) == B58DecodeLoop(input, 0, B58DecodeBuffer(input))

\* a decoder was handed b58text
B58Decoded == b58pc \in {"decoded", "cdec", "tdec", "bdec", "creenc", "benc"}

\* C29: EncodeBase58's working buffer of 1 + n*7/5 digits is never indexed
\* past its end, and DecodeBase58's working buffer of 1 + n*11/15 bytes is
\* large enough that the carry is zero at the end of every
\* multiply-by-58-and-add pass: no high-order part of the number is dropped.
C29_Base58BuffersSuffice ==
    /\ b58data # <<>> =>
          /\ ~B58EncodeWork(b58data).panic
          /\ B58EncodeWork(b58data).resultLen <= 1 + (Len(b58data) * 7) \div 5
    /\ b58text # Panic
    /\ b58re # Panic
    /\ B58Decoded /\ b58text # <<>> => ~B58DecodeWork(b58text).lost

\* the decoder was handed the largest number of 8 digits, which fills its
\* buffer of 6 bytes
C29_Witness ==
    /\ b58pc = "tdec"
    /\ b58text = [i \in 1..8 |-> 122]
    /\ Len(B58DecodeWork(b58text).result) = 6
    /\ B58DecodeWork(b58text).result[1] # 0

----------------------------------------------------------------------------
(* Claims about the indices of EncodeC32ToBuffer. *)

\* carry, carryBits and position before the first input byte, with a buffer
\* of exactly the capacity EncodeC32 and C32CheckEncodePrefixed allocate
C32Start(input) ==
    [output |-> Zeros(GetMaxC32EncodeOutputLen(Len(input))), position |-> 0,
     carry |-> 0, carryBits |-> 0, panic |-> FALSE]

\* at the start of every iteration of the main loop from input[i] down,
\* carryBits is in 0..4 and the carry has no more bits than that; between the
\* two writes of an iteration carryBits is at most 7
RECURSIVE C32CarryInRange(_, _, _)
C32CarryInRange(input, i, st) ==
    \/ i < 0
    \/ /\ ~st.panic
       /\ st.carryBits \in 0..4
       /\ st.carry < Pow2(st.carryBits)
       /\ (8 + st.carryBits) - 5 \in 3..7
       /\ C32CarryInRange(input, i - 1, C32EncodeByte(st, input[i + 1]))

\* the buffer C32CheckEncodePrefixed hands to EncodeC32ToBuffer
C32CheckBuffer == c32data \o Checksum(<<c32ver>> \o c32data)

\* what EncodeC32ToBuffer returns for input and a buffer of the capacity
C32Work(input) == EncodeC32ToBuffer(input, Zeros(GetMaxC32EncodeOutputLen(Len(input))))

\* no index of EncodeC32ToBuffer is out of range for input
C32IndicesInRange(input) ==
    /\ C32CarryInRange(input, Len(input) - 1, C32Start(input))
    /\ ~C32EncodeLoop(input, Len(input) - 1, C32Start(input)).panic
    /\ C32EncodeLoop(input, Len(input) - 1, C32Start(input)).carryBits \in 0..4
    /\ ~C32Work(input).panic
    /\ C32Work(input).err = ""
    /\ C32Work(input).n <= GetMaxC32EncodeOutputLen(Len(input))

\* what EncodeC32ToBuffer was handed by the encoder that has just returned
C32Encoded == IF c32pc = "enc" THEN c32data ELSE C32CheckBuffer

\* C30: in EncodeC32ToBuffer no index is ever out of range: at the start of
\* each iteration over an input byte carryBits is in 0..4 (and at most 7 in
\* between), every index into the alphabet is in 0..31, and every write into
\* the buffer, those of the zero characters added after trimming included, is
\* at a position below the capacity floor((n + n mod 5) * 8 / 5).
C30_EncodeIndicesInRange ==
    /\ c32text.data # Panic
    /\ c32pc \in {"enc", "cenc", "aenc"} /\ c32data # <<>> => C32IndicesInRange(C32Encoded)

\* the encoder was handed 20 bytes of 255: its 32 characters fill the buffer
\* of 32 to the last position
C30_Witness ==
    /\ c32pc = "enc"
    /\ c32data = [i \in 1..20 |-> 255]
    /\ GetMaxC32EncodeOutputLen(Len(c32data)) = 32
    /\ Len(c32text.data) = 32
    /\ C32Work(c32data).n = 32

====
